---------------------------- MODULE Spec2Model ----------------------------
(***************************************************************************)
(* Project Touchline: the keyboard dispatch layer.                         *)
(*                                                                         *)
(* InputHandler (src/core/input_handler.py) keeps a dict hotkeys from a    *)
(* lower-cased key identifier to a zero-argument callback, and an advisory *)
(* navigation mode.  Screens bind their methods as callbacks.              *)
(*                                                                         *)
(* Strings that the code inspects character by character (key identifiers, *)
(* which go through str.lower()) are sequences of ASCII code points:       *)
(* "r" is <<114>>, "R" is <<82>>, "Up" is <<85, 112>>.  Strings that the   *)
(* code only compares or passes on whole (modes, texts) are TLA+ strings.  *)
(***************************************************************************)
EXTENDS Integers, Sequences, FiniteSets, TLC

VARIABLES
    hotkeys,            \* InputHandler.hotkeys: dict, in insertion order
    navigation_mode,    \* InputHandler.navigation_mode
    lastCall,           \* observation: the last public call and its outcome
    prevCall,           \* observation: the call before it, in brief
    expected,           \* history: normalized key -> callback bound last
    clearedSinceBind,   \* history: clear_bindings ran and no bind since
    main_menu,          \* the MainMenuScreen object
    save_load,          \* the SaveLoadScreen object
    narrator,           \* the NarrationEngine object
    deactivated,        \* history: screens deactivated and not activated since
    pc,                 \* per thread: where it is in handle_key and speak
    job,                \* per thread: the arguments of the speak call it is in
    inflight,           \* the handle_key call the dispatch thread is in
    navigator,          \* a NavigationHelper object driven on its own
    navCall,            \* observation: the last NavigationHelper call
    navPrev,            \* observation: the call before it, in brief
    navRun,             \* history: the run of next() or previous() calls
    keyboard_mapper,    \* the KeyboardMapper object
    mapCall,            \* observation: the last KeyboardMapper call
    copies,             \* history: the pairs (name, base) create_preset copied
    written,            \* history: what map_key wrote and nothing rewrote
    returned,           \* the map that get_mappings gave its caller
    parseCall,          \* observation: the last parse_key_combo call
    inbox,              \* the InboxScreen object
    inboxCall,          \* observation: the last InboxScreen call
    matchday,           \* the MatchDayScreen object
    matchCall,          \* observation: the last MatchDayScreen call
    club_selection,     \* the ClubSelectionScreen object
    clubCall            \* observation: the last ClubSelectionScreen call

scrVars == <<main_menu, save_load, narrator, deactivated>>
vars == <<hotkeys, navigation_mode, lastCall, prevCall, expected,
          clearedSinceBind, main_menu, save_load, narrator, deactivated,
          pc, job, inflight, navigator, navCall, navPrev, navRun,
          keyboard_mapper, mapCall, copies, written, returned,
          parseCall, inbox, inboxCall, matchday, matchCall,
          club_selection, clubCall>>
thrVars == <<pc, job, inflight>>
navVars == <<navigator, navCall, navPrev, navRun>>
hdlVars == <<hotkeys, navigation_mode, lastCall, prevCall, expected,
             clearedSinceBind>>
\* the objects that the handler's specifications leave alone
mapVars == <<keyboard_mapper, mapCall, copies, written, returned>>
parseVars == <<parseCall>>
inboxVars == <<inbox, inboxCall>>
matchVars == <<matchday, matchCall>>
clubVars == <<club_selection, clubCall>>
libVars == <<navVars, mapVars, parseVars, inboxVars, matchVars, clubVars>>
\* all but the NavigationHelper, and all but the KeyboardMapper
nonNavVars == <<hdlVars, scrVars, thrVars, mapVars, parseVars, inboxVars,
               matchVars, clubVars>>
nonMapVars == <<hdlVars, scrVars, thrVars, navVars, parseVars, inboxVars,
               matchVars, clubVars>>

---------------------------------------------------------------------------
(* Bounds of the model *)

\* host callbacks are numbered 1..MaxCallbackId, each in a returning and a
\* raising variety
MaxCallbackId == 2

\* threads started by speak_async that can be alive at once
MaxWorkers == 1

\* a NavigationHelper holds at most MaxItems items
MaxItems == 3

\* a run of next() or of previous() calls is followed for MaxSteps calls
MaxSteps == 4

\* a configuration document names at most MaxDocPresets presets
MaxDocPresets == 2

\* a key combination string joins at most MaxTokens tokens with '+'
MaxTokens == 3

---------------------------------------------------------------------------
(* Key identifiers *)

K_r      == <<114>>
K_R      == <<82>>
K_up     == <<117, 112>>
K_Up     == <<85, 112>>
K_down   == <<100, 111, 119, 110>>
K_enter  == <<101, 110, 116, 101, 114>>
K_escape == <<101, 115, 99, 97, 112, 101>>
K_h      == <<104>>
K_delete == <<100, 101, 108, 101, 116, 101>>
K_space  == <<115, 112, 97, 99, 101>>
K_SPACE  == <<83, 80, 65, 67, 69>>
K_f      == <<102>>
K_ctrl   == <<99, 116, 114, 108>>
K_Shift  == <<83, 104, 105, 102, 116>>
K_shift  == <<115, 104, 105, 102, 116>>
K_S      == <<83>>
K_s      == <<115>>

\* '+', which separates the tokens of a key combination
Plus == 43

\* the key identifiers the host passes to bind, unbind and handle_key
RawKeys == {K_r, K_R, K_up, K_Up}

\* str.lower() on one ASCII character
lower_char(c) == IF c >= 65 /\ c <= 90 THEN c + 32 ELSE c

\* str.lower()
lower(s) == [i \in 1..Len(s) |-> lower_char(s[i])]

---------------------------------------------------------------------------
(* Callbacks *)

NoCallback == [owner |-> "none", method |-> "none", id |-> 0]

\* callbacks of the host application: one that returns and one that raises
\* an Exception, per id
HostCallbacks ==
    [owner : {"host"}, method : {"returns", "raises"}, id : 1..MaxCallbackId]

\* whether calling cb ends in an Exception (an error of the callback, which
\* "except Exception" catches; an interpreter exit request is not one)
Raises(cb) == cb.owner = "host" /\ cb.method = "raises"

---------------------------------------------------------------------------
(* Python dict, kept as its insertion-ordered sequence of items *)

DictKeys(d) == [i \in 1..Len(d) |-> d[i].key]

DictHas(d, k) == \E i \in 1..Len(d) : d[i].key = k

DictGet(d, k) == d[CHOOSE i \in 1..Len(d) : d[i].key = k].cb

\* d[k] = v: replaces the value in place, or appends a new item
DictSet(d, k, v) ==
    IF DictHas(d, k)
    THEN [i \in 1..Len(d) |-> IF d[i].key = k THEN [key |-> k, cb |-> v] ELSE d[i]]
    ELSE Append(d, [key |-> k, cb |-> v])

\* del d[k]
DictDel(d, k) == SelectSeq(d, LAMBDA e : e.key # k)

---------------------------------------------------------------------------
(* InputHandler *)

valid_modes == {"menu", "list", "form", "match"}

\* the modes callers pass to set_navigation_mode
ModeInputs == valid_modes \cup {"inbox", "bogus"}

\* bind that stores the key as given
bind_as_given(hk, key, callback) == DictSet(hk, key, callback)

bind(hk, key, callback) == DictSet(hk, lower(key), callback)

\* unbind that looks the key up as given
unbind_as_given(hk, key) == IF DictHas(hk, key) THEN DictDel(hk, key) ELSE hk

unbind(hk, key) ==
    IF DictHas(hk, lower(key)) THEN DictDel(hk, lower(key)) ELSE hk

\* the callbacks handle_key calls for key, in order
handle_key_dispatch(hk, key) ==
    IF DictHas(hk, lower(key)) THEN <<DictGet(hk, lower(key))>> ELSE <<>>

\* handle_key without its try/except
handle_key_result_unguarded(found, raised) ==
    IF found
    THEN IF raised
         THEN [escaped |-> TRUE, ret |-> FALSE]
         ELSE [escaped |-> FALSE, ret |-> TRUE]
    ELSE [escaped |-> FALSE, ret |-> FALSE]

\* handle_key whose last line returns True
handle_key_result_fallthrough(found, raised) ==
    IF found
    THEN IF raised
         THEN [escaped |-> FALSE, ret |-> FALSE]
         ELSE [escaped |-> FALSE, ret |-> TRUE]
    ELSE [escaped |-> FALSE, ret |-> TRUE]

\* how handle_key ends: found = a binding existed, raised = its callback
\* raised an Exception.  escaped = the exception left handle_key.
handle_key_result(found, raised) ==
    IF found
    THEN IF raised
         THEN [escaped |-> FALSE, ret |-> FALSE]
         ELSE [escaped |-> FALSE, ret |-> TRUE]
    ELSE [escaped |-> FALSE, ret |-> FALSE]

\* set_navigation_mode without the membership test
set_navigation_mode_unchecked(cur, mode) == mode

set_navigation_mode(cur, mode) == IF mode \in valid_modes THEN mode ELSE cur

get_navigation_mode == navigation_mode

\* clear_bindings that clears another dict (key_bindings) instead
clear_bindings_other_dict(hk) == hk

clear_bindings(hk) == <<>>

list_bindings(hk) == DictKeys(hk)

---------------------------------------------------------------------------
(* Observation and history *)

\* the record of one public call: its arguments, what it invoked and how it
\* ended; replaced (bind: another callback was bound to the key, unbind: the
\* key was bound) and count (clear_bindings: how many keys were bound)
\* describe the bindings the call found; stale = the callback invoked belongs
\* to a screen that was deactivated before the call; heard = the texts the
\* narrator uttered during the call
NoCall ==
    [op |-> "init", key |-> <<>>, cb |-> NoCallback, mode |-> "",
     invoked |-> <<>>, raised |-> FALSE, escaped |-> FALSE, ret |-> FALSE,
     replaced |-> FALSE, count |-> 0, stale |-> FALSE, heard |-> <<>>]

\* what is kept of the call before the last one
Brief(c) ==
    [op |-> c.op, raised |-> c.raised, replaced |-> c.replaced,
     count |-> c.count]

\* the history map after a bind
HistBind(ex, key, cb) ==
    [k \in DOMAIN ex \cup {lower(key)} |-> IF k = lower(key) THEN cb ELSE ex[k]]

\* the history map after an unbind
HistUnbind(ex, key) == [k \in DOMAIN ex \ {lower(key)} |-> ex[k]]

EmptyMap == [k \in {} |-> NoCallback]

\* the key has a binding, by the history of binds
Bound(key) == lower(key) \in DOMAIN expected

\* str.split(sep): the segments between the separators, in order; a string
\* without the separator, the empty string too, is one segment
RECURSIVE split(_, _)
split(s, sep) ==
    IF \E i \in 1..Len(s) : s[i] = sep
    THEN LET i == CHOOSE j \in 1..Len(s) :
                     s[j] = sep /\ \A k \in 1..(j - 1) : s[k] # sep
         IN  <<SubSeq(s, 1, i - 1)>> \o split(SubSeq(s, i + 1, Len(s)), sep)
    ELSE <<s>>

\* parse_key_combo that splits the string as it is given
parse_key_combo_as_given(key_string) ==
    LET parts == split(key_string, Plus)
    IN  IF Len(parts) = 1
        THEN [modifiers |-> <<>>, key |-> parts[1]]
        ELSE [modifiers |-> SubSeq(parts, 1, Len(parts) - 1),
              key |-> parts[Len(parts)]]

\* the tuple (modifiers, key): modifiers is the list parts[:-1]
parse_key_combo(key_string) ==
    LET parts == split(lower(key_string), Plus)
    IN  IF Len(parts) = 1
        THEN [modifiers |-> <<>>, key |-> parts[1]]
        ELSE [modifiers |-> SubSeq(parts, 1, Len(parts) - 1),
              key |-> parts[Len(parts)]]

---------------------------------------------------------------------------
(* Texts.  A text is the sequence of the parts an f-string joins; the empty *)
(* string is the empty sequence.                                           *)

EmptyStr == <<>>

\* str(n)
str(n) == ToString(n)

---------------------------------------------------------------------------
(* NavigationHelper: a record [items, current_index]; a method returns the *)
(* object after the call (self) and the value returned (ret)               *)

NavigationHelper(items) == [items |-> items, current_index |-> 0]

get_current(nav) ==
    IF nav.items # <<>> /\ 0 <= nav.current_index
                        /\ nav.current_index < Len(nav.items)
    THEN nav.items[nav.current_index + 1]
    ELSE EmptyStr

get_current_index(nav) == nav.current_index

\* next() that stops at the last item
next_clamped(nav) ==
    IF nav.items # <<>>
    THEN LET moved == [nav EXCEPT !.current_index =
                          IF nav.current_index + 1 >= Len(nav.items)
                          THEN Len(nav.items) - 1
                          ELSE nav.current_index + 1]
         IN  [self |-> moved, ret |-> get_current(moved)]
    ELSE [self |-> nav, ret |-> EmptyStr]

next(nav) ==
    IF nav.items # <<>>
    THEN LET moved == [nav EXCEPT !.current_index =
                          (nav.current_index + 1) % Len(nav.items)]
         IN  [self |-> moved, ret |-> get_current(moved)]
    ELSE [self |-> nav, ret |-> EmptyStr]

\* previous() that stops at the first item
previous_clamped(nav) ==
    IF nav.items # <<>>
    THEN LET moved == [nav EXCEPT !.current_index =
                          IF nav.current_index = 0 THEN 0
                          ELSE nav.current_index - 1]
         IN  [self |-> moved, ret |-> get_current(moved)]
    ELSE [self |-> nav, ret |-> EmptyStr]

\* Python's % takes the sign of the divisor, as % of Integers does
previous(nav) ==
    IF nav.items # <<>>
    THEN LET moved == [nav EXCEPT !.current_index =
                          (nav.current_index - 1) % Len(nav.items)]
         IN  [self |-> moved, ret |-> get_current(moved)]
    ELSE [self |-> nav, ret |-> EmptyStr]

first(nav) ==
    LET moved == [nav EXCEPT !.current_index = 0]
    IN  [self |-> moved, ret |-> get_current(moved)]

\* last() without the test for an empty list
last_unguarded(nav) ==
    LET moved == [nav EXCEPT !.current_index = Len(nav.items) - 1]
    IN  [self |-> moved, ret |-> get_current(moved)]

last(nav) ==
    IF nav.items # <<>>
    THEN LET moved == [nav EXCEPT !.current_index = Len(nav.items) - 1]
         IN  [self |-> moved, ret |-> get_current(moved)]
    ELSE [self |-> nav, ret |-> EmptyStr]

\* set_index() that stores whatever index it is given
set_index_unchecked(nav, index) ==
    LET moved == [nav EXCEPT !.current_index = index]
    IN  [self |-> moved, ret |-> get_current(moved)]

\* set_index() that moves an index outside the list to the nearest end
set_index_clamped(nav, index) ==
    IF nav.items # <<>>
    THEN LET moved == [nav EXCEPT !.current_index =
                          IF index < 0 THEN 0
                          ELSE IF index >= Len(nav.items)
                               THEN Len(nav.items) - 1
                               ELSE index]
         IN  [self |-> moved, ret |-> get_current(moved)]
    ELSE [self |-> nav, ret |-> EmptyStr]

set_index(nav, index) ==
    IF nav.items # <<>> /\ 0 <= index /\ index < Len(nav.items)
    THEN LET moved == [nav EXCEPT !.current_index = index]
         IN  [self |-> moved, ret |-> get_current(moved)]
    ELSE [self |-> nav, ret |-> EmptyStr]

\* update_items() that keeps the cursor where it was
update_items_keep_index(nav, items) ==
    [nav EXCEPT !.items = items]

\* update_items returns nothing: the object after the call
update_items(nav, items) ==
    [items |-> items, current_index |-> 0]

---------------------------------------------------------------------------
(* KeyboardMapper: a record [mappings, objects, current_preset].  mappings *)
(* takes a preset name to a reference, and objects takes a reference to    *)
(* the value it denotes: a dict of key -> action, or a value of another    *)
(* type that a configuration file put in a dict's place.  Two names that   *)
(* hold one reference share one dict.  A dict is the function from its     *)
(* keys to its values; the order of its items is not kept.                 *)

\* None (or ''): the preset argument that "preset or self.current_preset"
\* replaces by the active preset
NoPreset == ""

\* a dict object with these items
DictObject(items) == [dict |-> TRUE, items |-> items]

\* a JSON number where a dict of key -> action is expected
NotADict == [dict |-> FALSE, items |-> <<>>]

\* d[k] = v
SetItem(d, k, v) == [x \in DOMAIN d \cup {k} |-> IF x = k THEN v ELSE d[x]]

\* del d[k]
DelItem(d, k) == [x \in DOMAIN d \ {k} |-> d[x]]

\* d.update(other)
Update(d, other) ==
    [x \in DOMAIN d \cup DOMAIN other |-> IF x \in DOMAIN other THEN other[x]
                                          ELSE d[x]]

\* the reference of an object made now
NewRef(objects) ==
    CHOOSE r \in 1..(Cardinality(DOMAIN objects) + 1) : r \notin DOMAIN objects

\* an object that no preset name refers to is gone
Collect(km) ==
    [km EXCEPT !.objects =
        [r \in {km.mappings[p] : p \in DOMAIN km.mappings} |-> km.objects[r]]]

\* self.mappings[name] = value, for a value made now
StoreNew(km, name, value) ==
    LET r == NewRef(km.objects)
    IN  Collect([km EXCEPT !.mappings = SetItem(km.mappings, name, r),
                           !.objects = SetItem(km.objects, r, value)])

\* self.mappings[name] = the object that self.mappings[other] is
StoreShared(km, name, other) ==
    Collect([km EXCEPT !.mappings = SetItem(km.mappings, name,
                                            km.mappings[other])])

\* self.mappings['default']
default_mappings ==
       (<<117, 112>> :> "navigate_up")                            \* 'up'
    @@ (<<100, 111, 119, 110>> :> "navigate_down")                \* 'down'
    @@ (<<108, 101, 102, 116>> :> "navigate_left")                \* 'left'
    @@ (<<114, 105, 103, 104, 116>> :> "navigate_right")          \* 'right'
    @@ (<<101, 110, 116, 101, 114>> :> "select")                  \* 'enter'
    @@ (<<101, 115, 99, 97, 112, 101>> :> "back")                 \* 'escape'
    @@ (<<116, 97, 98>> :> "next_section")                        \* 'tab'
    @@ (<<115, 104, 105, 102, 116, 43, 116, 97, 98>> :> "previous_section")\* 'shift+tab'
    @@ (<<115, 112, 97, 99, 101>> :> "toggle")                    \* 'space'
    @@ (<<114>> :> "read_current")                                \* 'r'
    @@ (<<115>> :> "save")                                        \* 's'
    @@ (<<108>> :> "load")                                        \* 'l'
    @@ (<<104>> :> "help")                                        \* 'h'
    @@ (<<113>> :> "quit")                                        \* 'q'
    @@ (<<109>> :> "main_menu")                                   \* 'm'
    @@ (<<110>> :> "toggle_narration")                            \* 'n'
    @@ (<<102, 49>> :> "help")                                    \* 'f1'
    @@ (<<99, 116, 114, 108, 43, 115>> :> "save")                 \* 'ctrl+s'
    @@ (<<99, 116, 114, 108, 43, 108>> :> "load")                 \* 'ctrl+l'

\* self.mappings['screen_reader']
screen_reader_mappings ==
       (<<117, 112>> :> "navigate_up")                            \* 'up'
    @@ (<<100, 111, 119, 110>> :> "navigate_down")                \* 'down'
    @@ (<<108, 101, 102, 116>> :> "navigate_left")                \* 'left'
    @@ (<<114, 105, 103, 104, 116>> :> "navigate_right")          \* 'right'
    @@ (<<101, 110, 116, 101, 114>> :> "select")                  \* 'enter'
    @@ (<<101, 115, 99, 97, 112, 101>> :> "back")                 \* 'escape'
    @@ (<<105, 110, 115, 101, 114, 116, 43, 114>> :> "read_current")\* 'insert+r'
    @@ (<<105, 110, 115, 101, 114, 116, 43, 115>> :> "stop_speech")\* 'insert+s'
    @@ (<<105, 110, 115, 101, 114, 116, 43, 104>> :> "read_heading")\* 'insert+h'
    @@ (<<105, 110, 115, 101, 114, 116, 43, 116>> :> "read_title")\* 'insert+t'
    @@ (<<99, 116, 114, 108, 43, 104, 111, 109, 101>> :> "first_item")\* 'ctrl+home'
    @@ (<<99, 116, 114, 108, 43, 101, 110, 100>> :> "last_item")  \* 'ctrl+end'

\* self.mappings['match']
match_mappings ==
       (<<115, 112, 97, 99, 101>> :> "pause_match")               \* 'space'
    @@ (<<99>> :> "read_commentary")                              \* 'c'
    @@ (<<112>> :> "read_possession")                             \* 'p'
    @@ (<<116>> :> "read_stats")                                  \* 't'
    @@ (<<103>> :> "read_last_goal")                              \* 'g'
    @@ (<<101>> :> "read_last_event")                             \* 'e'
    @@ (<<102>> :> "faster_commentary")                           \* 'f'
    @@ (<<115, 108, 111, 119, 101, 114>> :> "slower_commentary")  \* 'slower'
    @@ (<<108, 101, 102, 116>> :> "previous_event")               \* 'left'
    @@ (<<114, 105, 103, 104, 116>> :> "next_event")              \* 'right'
    @@ (<<101, 115, 99, 97, 112, 101>> :> "back_to_menu")         \* 'escape'

\* self.mappings['tactics']
tactics_mappings ==
       (<<117, 112>> :> "previous_player")                        \* 'up'
    @@ (<<100, 111, 119, 110>> :> "next_player")                  \* 'down'
    @@ (<<108, 101, 102, 116>> :> "previous_position")            \* 'left'
    @@ (<<114, 105, 103, 104, 116>> :> "next_position")           \* 'right'
    @@ (<<101, 110, 116, 101, 114>> :> "select_player")           \* 'enter'
    @@ (<<102>> :> "change_formation")                            \* 'f'
    @@ (<<114>> :> "read_formation")                              \* 'r'
    @@ (<<115>> :> "substitute_menu")                             \* 's'
    @@ (<<105>> :> "player_instructions")                         \* 'i'
    @@ (<<101, 115, 99, 97, 112, 101>> :> "back")                 \* 'escape'

\* self.mappings['inbox']
inbox_mappings ==
       (<<117, 112>> :> "previous_email")                         \* 'up'
    @@ (<<100, 111, 119, 110>> :> "next_email")                   \* 'down'
    @@ (<<101, 110, 116, 101, 114>> :> "open_email")              \* 'enter'
    @@ (<<114>> :> "read_email")                                  \* 'r'
    @@ (<<100>> :> "delete_email")                                \* 'd'
    @@ (<<97>> :> "archive_email")                                \* 'a'
    @@ (<<101, 115, 99, 97, 112, 101>> :> "back")                 \* 'escape'

init_default_mappings(km) ==
    LET m1 == StoreNew(km, "default", DictObject(default_mappings))
        m2 == StoreNew(m1, "screen_reader", DictObject(screen_reader_mappings))
        m3 == StoreNew(m2, "match", DictObject(match_mappings))
        m4 == StoreNew(m3, "tactics", DictObject(tactics_mappings))
    IN  StoreNew(m4, "inbox", DictObject(inbox_mappings))

\* KeyboardMapper(): no configuration file
\* a constructor that seeds nothing but an empty default preset
KeyboardMapper_unseeded ==
    StoreNew([mappings |-> <<>>, objects |-> <<>>, current_preset |-> "default"],
             "default", DictObject(<<>>))

KeyboardMapper ==
    init_default_mappings([mappings |-> <<>>, objects |-> <<>>,
                           current_preset |-> "default"])

\* lines 126-130: the loop over the presets of the document, in its order;
\* update() of or with a value that is not a dict raises and ends the loop
RECURSIVE merge_presets(_, _)
merge_presets(km, items) ==
    IF items = <<>>
    THEN [self |-> km, raised |-> FALSE]
    ELSE LET preset == items[1].preset
             loaded == items[1].mappings
         IN  IF preset \in DOMAIN km.mappings
             THEN IF km.objects[km.mappings[preset]].dict /\ loaded.dict
                  THEN merge_presets(
                           [km EXCEPT !.objects[km.mappings[preset]].items =
                                          Update(@, loaded.items)],
                           Tail(items))
                  ELSE [self |-> km, raised |-> TRUE]
             ELSE merge_presets(StoreNew(km, preset, loaded), Tail(items))

\* load_config(filepath), by what the file holds: no file and text that is
\* not JSON are caught; JSON that is not an object has no items()
load_config(km, doc) ==
    CASE doc.kind = "missing"    -> [self |-> km, raised |-> FALSE]
      [] doc.kind = "unparsable" -> [self |-> km, raised |-> FALSE]
      [] doc.kind = "array"      -> [self |-> km, raised |-> TRUE]
      [] doc.kind = "object"     -> merge_presets(km, doc.items)

\* set_preset() that activates whatever name it is given
set_preset_unchecked(km, preset_name) ==
    [self |-> [km EXCEPT !.current_preset = preset_name], ret |-> TRUE]

set_preset(km, preset_name) ==
    IF preset_name \in DOMAIN km.mappings
    THEN [self |-> [km EXCEPT !.current_preset = preset_name], ret |-> TRUE]
    ELSE [self |-> km, ret |-> FALSE]

\* preset or self.current_preset
preset_or_current(km, preset) ==
    IF preset = NoPreset THEN km.current_preset ELSE preset

\* map_key() that also makes the preset it wrote the active one
map_key_activating(km, key, action, preset) ==
    LET p == preset_or_current(km, preset)
        made == IF p \in DOMAIN km.mappings THEN km
                ELSE StoreNew(km, p, DictObject(<<>>))
        r == made.mappings[p]
    IN  IF made.objects[r].dict
        THEN [self |-> [made EXCEPT !.objects[r].items =
                                       SetItem(@, lower(key), action),
                                    !.current_preset = p],
              raised |-> FALSE]
        ELSE [self |-> made, raised |-> TRUE]

\* item assignment on a value that is not a dict raises, after line 193 has
\* made a missing preset
map_key(km, key, action, preset) ==
    LET p == preset_or_current(km, preset)
        made == IF p \in DOMAIN km.mappings THEN km
                ELSE StoreNew(km, p, DictObject(<<>>))
        r == made.mappings[p]
    IN  IF made.objects[r].dict
        THEN [self |-> [made EXCEPT !.objects[r].items =
                                       SetItem(@, lower(key), action)],
              raised |-> FALSE]
        ELSE [self |-> made, raised |-> TRUE]

\* unmap_key() that drops a preset whose last mapping it removed
unmap_key_dropping(km, key, preset) ==
    LET p == preset_or_current(km, preset)
    IN  IF p \in DOMAIN km.mappings
        THEN LET r == km.mappings[p]
             IN  IF km.objects[r].dict
                 THEN IF lower(key) \in DOMAIN km.objects[r].items
                      THEN [self |->
                              IF DOMAIN km.objects[r].items = {lower(key)}
                                 /\ p # km.current_preset
                              THEN Collect([km EXCEPT !.mappings =
                                                        DelItem(@, p)])
                              ELSE [km EXCEPT !.objects[r].items =
                                                 DelItem(@, lower(key))],
                            raised |-> FALSE]
                      ELSE [self |-> km, raised |-> FALSE]
                 ELSE [self |-> km, raised |-> TRUE]
        ELSE [self |-> km, raised |-> FALSE]

\* "in" on a value that is not a dict raises
unmap_key(km, key, preset) ==
    LET p == preset_or_current(km, preset)
    IN  IF p \in DOMAIN km.mappings
        THEN LET r == km.mappings[p]
             IN  IF km.objects[r].dict
                 THEN IF lower(key) \in DOMAIN km.objects[r].items
                      THEN [self |-> [km EXCEPT !.objects[r].items =
                                                 DelItem(@, lower(key))],
                            raised |-> FALSE]
                      ELSE [self |-> km, raised |-> FALSE]
                 ELSE [self |-> km, raised |-> TRUE]
        ELSE [self |-> km, raised |-> FALSE]

\* get_mappings() that returns the preset's own dict
get_mappings_live(km, preset) ==
    LET p == preset_or_current(km, preset)
    IN  IF p \in DOMAIN km.mappings
        THEN IF km.objects[km.mappings[p]].dict
             THEN [ret |-> km.objects[km.mappings[p]].items,
                   alias |-> km.mappings[p], raised |-> FALSE]
             ELSE [ret |-> <<>>, alias |-> 0, raised |-> TRUE]
        ELSE [ret |-> <<>>, alias |-> 0, raised |-> FALSE]

\* copy() returns a dict made now, which is no object of the mapper (alias
\* 0), and so does get() of a missing preset; copy() of a value that is
\* not a dict raises
get_mappings(km, preset) ==
    LET p == preset_or_current(km, preset)
    IN  IF p \in DOMAIN km.mappings
        THEN IF km.objects[km.mappings[p]].dict
             THEN [ret |-> km.objects[km.mappings[p]].items,
                   alias |-> 0, raised |-> FALSE]
             ELSE [ret |-> <<>>, alias |-> 0, raised |-> TRUE]
        ELSE [ret |-> <<>>, alias |-> 0, raised |-> FALSE]

list_presets(km) == DOMAIN km.mappings

\* what get_action returns for a key that has no action: None
NotFound == [found |-> FALSE, action |-> "", raised |-> FALSE]

\* get_action() that looks the key up as it is given
get_action_as_given(km, key, preset) ==
    LET p == preset_or_current(km, preset)
    IN  IF p \in DOMAIN km.mappings
        THEN IF km.objects[km.mappings[p]].dict
             THEN IF key \in DOMAIN km.objects[km.mappings[p]].items
                  THEN [found |-> TRUE,
                        action |-> km.objects[km.mappings[p]].items[key],
                        raised |-> FALSE]
                  ELSE NotFound
             ELSE [NotFound EXCEPT !.raised = TRUE]
        ELSE NotFound

\* get() on a value that is not a dict raises
get_action(km, key, preset) ==
    LET p == preset_or_current(km, preset)
    IN  IF p \in DOMAIN km.mappings
        THEN IF km.objects[km.mappings[p]].dict
             THEN IF lower(key) \in DOMAIN km.objects[km.mappings[p]].items
                  THEN [found |-> TRUE,
                        action |-> km.objects[km.mappings[p]].items[lower(key)],
                        raised |-> FALSE]
                  ELSE NotFound
             ELSE [NotFound EXCEPT !.raised = TRUE]
        ELSE NotFound

\* create_preset() that gives the new name the base preset's own dict
create_preset_shared(km, name, base_preset) ==
    IF base_preset # NoPreset /\ base_preset \in DOMAIN km.mappings
    THEN IF km.objects[km.mappings[base_preset]].dict
         THEN [self |-> StoreShared(km, name, base_preset), raised |-> FALSE]
         ELSE [self |-> km, raised |-> TRUE]
    ELSE [self |-> StoreNew(km, name, DictObject(<<>>)), raised |-> FALSE]

\* copy() makes a new dict of the same items, which are strings
create_preset(km, name, base_preset) ==
    IF base_preset # NoPreset /\ base_preset \in DOMAIN km.mappings
    THEN IF km.objects[km.mappings[base_preset]].dict
         THEN [self |-> StoreNew(km, name,
                           DictObject(km.objects[km.mappings[base_preset]].items)),
               raised |-> FALSE]
         ELSE [self |-> km, raised |-> TRUE]
    ELSE [self |-> StoreNew(km, name, DictObject(<<>>)), raised |-> FALSE]

---------------------------------------------------------------------------
(* NarrationEngine: a record [enabled, engine, speaking]; engine is TRUE   *)
(* when pyttsx3 was initialised and FALSE for the console fallback         *)

NarrationEngine(enabled, engine) ==
    [enabled |-> enabled, engine |-> engine, speaking |-> FALSE]

\* what the engine utters when speak(text) is called, in order, for every
\* text of said, on the calling thread and run to completion: speak returns
\* early when narration is disabled or the text is empty
speak_all(nar, said) == SelectSeq(said, LAMBDA t : nar.enabled /\ t # EmptyStr)

\* the thread that calls handle_key, and with the workers of speak_async all
\* threads
DispatchThread == 0
Threads == {DispatchThread} \cup (1..MaxWorkers)

\* the arguments of a speak call
NoJob == [text |-> EmptyStr, interrupt |-> FALSE]

\* the texts the host passes to speak_async
AsyncTexts == {EmptyStr, <<"Match starting">>}

---------------------------------------------------------------------------
(* Screen callbacks.  A method of a screen returns the screen after the    *)
(* call (self) and the texts it passed to narrator.speak, in order (said). *)

Method(owner, method) == [owner |-> owner, method |-> method, id |-> 0]

\* dict updates in sequence: binds is a sequence of <<key, callback>>
RECURSIVE bind_all(_, _)
bind_all(hk, binds) ==
    IF binds = <<>> THEN hk
    ELSE bind_all(bind(hk, binds[1][1], binds[1][2]), Tail(binds))

RECURSIVE HistBindAll(_, _)
HistBindAll(ex, binds) ==
    IF binds = <<>> THEN ex
    ELSE HistBindAll(HistBind(ex, binds[1][1], binds[1][2]), Tail(binds))

\* a method that ran to its end
Ret(self, said) == [self |-> self, said |-> said, raised |-> FALSE]

(* MainMenuScreen *)

menu_items ==
    << <<"Career Mode - Start a new game">>,
       <<"Load Game - Continue a saved game">>,
       <<"Preferences - Adjust settings">>,
       <<"Quit - Exit the game">> >>

NoMainMenu ==
    [built |-> FALSE, active |-> FALSE, navigator |-> NavigationHelper(<<>>)]

MainMenuScreen ==
    [built |-> TRUE, active |-> FALSE, navigator |-> NavigationHelper(menu_items)]

MainMenuScreen_setup_bindings ==
    << <<K_up, Method("main_menu", "previous_item")>>,
       <<K_down, Method("main_menu", "next_item")>>,
       <<K_enter, Method("main_menu", "select_item")>>,
       <<K_escape, Method("main_menu", "quit")>>,
       <<K_r, Method("main_menu", "read_current")>>,
       <<K_h, Method("main_menu", "show_help")>> >>

MainMenuScreen_read_current(m) ==
    IF m.active
    THEN Ret(m, << <<"Item ", str(get_current_index(m.navigator) + 1),
                     " of ", str(Len(menu_items)), ": ">>
                   \o get_current(m.navigator) >>)
    ELSE Ret(m, <<>>)

\* activate also calls set_navigation_mode('menu'): see ActivateMainMenu
MainMenuScreen_activate(m) ==
    LET on == [m EXCEPT !.active = TRUE]
    IN  Ret(on, << <<"Welcome to Football Manager 2026. Main Menu.">> >>
                \o MainMenuScreen_read_current(on).said)

MainMenuScreen_deactivate(m) == Ret([m EXCEPT !.active = FALSE], <<>>)

MainMenuScreen_next_item(m) ==
    IF m.active
    THEN Ret([m EXCEPT !.navigator = next(m.navigator).self],
             <<next(m.navigator).ret>>)
    ELSE Ret(m, <<>>)

MainMenuScreen_previous_item(m) ==
    IF m.active
    THEN Ret([m EXCEPT !.navigator = previous(m.navigator).self],
             <<previous(m.navigator).ret>>)
    ELSE Ret(m, <<>>)

MainMenuScreen_quit(m) ==
    Ret(MainMenuScreen_deactivate(m).self,
        << <<"Exiting Football Manager. Goodbye!">> >>)

MainMenuScreen_select_item(m) ==
    IF m.active
    THEN CASE get_current_index(m.navigator) = 0 ->
                Ret(m, << <<"Opening Career Mode">> >>)
           [] get_current_index(m.navigator) = 1 ->
                Ret(m, << <<"Opening Load Game">> >>)
           [] get_current_index(m.navigator) = 2 ->
                Ret(m, << <<"Opening Preferences">> >>)
           [] get_current_index(m.navigator) = 3 -> MainMenuScreen_quit(m)
           [] OTHER -> Ret(m, <<>>)
    ELSE Ret(m, <<>>)

MainMenuScreen_show_help(m) ==
    IF m.active
    THEN Ret(m, << <<"Main Menu Help. Use up and down arrows to navigate. Press Enter to select. Press R to read current item. Press H for help. Press Escape to quit.">> >>)
    ELSE Ret(m, <<>>)

\* the call of a bound method of the main menu
MainMenuScreen_call(method, m) ==
    CASE method = "previous_item" -> MainMenuScreen_previous_item(m)
      [] method = "next_item"     -> MainMenuScreen_next_item(m)
      [] method = "select_item"   -> MainMenuScreen_select_item(m)
      [] method = "quit"          -> MainMenuScreen_quit(m)
      [] method = "read_current"  -> MainMenuScreen_read_current(m)
      [] method = "show_help"     -> MainMenuScreen_show_help(m)

(* SaveLoadScreen *)

SaveGame(name, club, date, season, position) ==
    [name |-> name, club |-> club, date |-> date, season |-> season,
     position |-> position]

get_summary(save) ==
    <<save.name, ", ", save.club, ", ", save.season, ", ", save.position,
      ", Saved: ", save.date>>

create_sample_saves ==
    << SaveGame("Career 1 - Season 1", "Manchester Rovers", "15 Jan 2026",
                "2025/26", "3rd in Premier League"),
       SaveGame("Career 1 - Season 2", "Manchester Rovers", "10 Mar 2027",
                "2026/27", "1st in Premier League"),
       SaveGame("Career 2 - Start", "Barcelona FC", "1 Jul 2025",
                "2025/26", "Pre-season") >>

\* [s.get_summary() for s in saves]
Summaries(saves) == [i \in 1..Len(saves) |-> get_summary(saves[i])]

\* list.pop(index), index counted from 0
Pop(list, index) ==
    [i \in 1..(Len(list) - 1) |-> IF i <= index THEN list[i] ELSE list[i + 1]]

NoSaveLoad ==
    [built |-> FALSE, active |-> FALSE, mode |-> "load", saved_games |-> <<>>,
     navigator |-> NavigationHelper(<<>>)]

SaveLoadScreen ==
    [built |-> TRUE, active |-> FALSE, mode |-> "load",
     saved_games |-> create_sample_saves,
     navigator |-> NavigationHelper(Summaries(create_sample_saves))]

SaveLoadScreen_setup_bindings ==
    << <<K_up, Method("save_load", "previous_save")>>,
       <<K_down, Method("save_load", "next_save")>>,
       <<K_enter, Method("save_load", "confirm_action")>>,
       <<K_r, Method("save_load", "read_current")>>,
       <<K_delete, Method("save_load", "delete_save")>>,
       <<K_escape, Method("save_load", "back")>>,
       <<K_h, Method("save_load", "show_help")>> >>

SaveLoadScreen_read_current(sl) ==
    IF sl.active /\ sl.saved_games # <<>>
    THEN Ret(sl, << <<"Save ", str(get_current_index(sl.navigator) + 1),
                      " of ", str(Len(sl.saved_games)), ": ">>
                    \o get_current(sl.navigator) >>)
    ELSE Ret(sl, <<>>)

\* activate also calls set_navigation_mode('list'): see ActivateSaveLoad
SaveLoadScreen_activate(sl, mode) ==
    LET on == [sl EXCEPT !.active = TRUE, !.mode = mode]
        welcome == IF mode = "load"
                   THEN <<"Load Game. ", str(Len(sl.saved_games)),
                          " saved games available.">>
                   ELSE <<"Save Game. Select a save slot or create new save.">>
    IN  Ret(on, <<welcome>> \o (IF on.saved_games # <<>>
                                THEN SaveLoadScreen_read_current(on).said
                                ELSE <<>>))

SaveLoadScreen_deactivate(sl) == Ret([sl EXCEPT !.active = FALSE], <<>>)

SaveLoadScreen_next_save(sl) ==
    IF sl.active
    THEN Ret([sl EXCEPT !.navigator = next(sl.navigator).self],
             <<next(sl.navigator).ret>>)
    ELSE Ret(sl, <<>>)

SaveLoadScreen_previous_save(sl) ==
    IF sl.active
    THEN Ret([sl EXCEPT !.navigator = previous(sl.navigator).self],
             <<previous(sl.navigator).ret>>)
    ELSE Ret(sl, <<>>)

\* saved_games[index] raises IndexError when index is past the end
SaveLoadScreen_confirm_action(sl) ==
    IF sl.active /\ sl.saved_games # <<>>
    THEN LET index == get_current_index(sl.navigator)
         IN  IF index >= Len(sl.saved_games)
             THEN [self |-> sl, said |-> <<>>, raised |-> TRUE]
             ELSE IF sl.mode = "load"
                  THEN Ret(sl, << <<"Loading ", sl.saved_games[index + 1].name,
                                    ". ", sl.saved_games[index + 1].club, ", ",
                                    sl.saved_games[index + 1].season, ".">> >>)
                  ELSE Ret(sl, << <<"Saving game as ",
                                    sl.saved_games[index + 1].name,
                                    ". Saved successfully.">> >>)
    ELSE Ret(sl, <<>>)

SaveLoadScreen_delete_save(sl) ==
    IF sl.active /\ sl.saved_games # <<>>
    THEN LET index == get_current_index(sl.navigator)
         IN  IF index >= Len(sl.saved_games)
             THEN [self |-> sl, said |-> <<>>, raised |-> TRUE]
             ELSE LET text == <<"Delete ", sl.saved_games[index + 1].name,
                                "? This action cannot be undone. Deleted.">>
                      popped == [sl EXCEPT !.saved_games = Pop(sl.saved_games, index)]
                      rebuilt == [popped EXCEPT !.navigator =
                                     NavigationHelper(Summaries(popped.saved_games))]
                  IN  IF popped.saved_games # <<>>
                      THEN Ret(rebuilt, <<text>>
                                        \o SaveLoadScreen_read_current(rebuilt).said)
                      ELSE Ret(popped, <<text, <<"No saved games available.">> >>)
    ELSE Ret(sl, <<>>)

SaveLoadScreen_show_help(sl) ==
    IF sl.active
    THEN Ret(sl, << <<"Save/Load Screen Help. Mode: ", sl.mode,
                      ". Use up and down arrows to navigate saves. Press Enter to ",
                      sl.mode,
                      " selected game. Press R to read current save details. Press Delete to remove a save. Press Escape to return to menu.">> >>)
    ELSE Ret(sl, <<>>)

SaveLoadScreen_back(sl) ==
    Ret(SaveLoadScreen_deactivate(sl).self, << <<"Returning to main menu">> >>)

\* the call of a bound method of the save/load screen
SaveLoadScreen_call(method, sl) ==
    CASE method = "previous_save"  -> SaveLoadScreen_previous_save(sl)
      [] method = "next_save"      -> SaveLoadScreen_next_save(sl)
      [] method = "confirm_action" -> SaveLoadScreen_confirm_action(sl)
      [] method = "read_current"   -> SaveLoadScreen_read_current(sl)
      [] method = "delete_save"    -> SaveLoadScreen_delete_save(sl)
      [] method = "back"           -> SaveLoadScreen_back(sl)
      [] method = "show_help"      -> SaveLoadScreen_show_help(sl)

\* self.hotkeys[key](): the screens after the call, what was passed to
\* narrator.speak, and whether the call ended in an Exception
Invoke(cb) ==
    CASE cb.owner = "main_menu" ->
            LET r == MainMenuScreen_call(cb.method, main_menu)
            IN  [main_menu |-> r.self, save_load |-> save_load,
                 said |-> r.said, raised |-> r.raised]
      [] cb.owner = "save_load" ->
            LET r == SaveLoadScreen_call(cb.method, save_load)
            IN  [main_menu |-> main_menu, save_load |-> r.self,
                 said |-> r.said, raised |-> r.raised]
      [] OTHER ->
            [main_menu |-> main_menu, save_load |-> save_load,
             said |-> <<>>, raised |-> Raises(cb)]

\* the screens that went from active to inactive or were inactive before,
\* less those active now
Deactivated(mm, sl) ==
    ( deactivated
      \cup (IF main_menu.active /\ ~mm.active THEN {"main_menu"} ELSE {})
      \cup (IF save_load.active /\ ~sl.active THEN {"save_load"} ELSE {}) )
    \ ( (IF mm.active THEN {"main_menu"} ELSE {})
        \cup (IF sl.active THEN {"save_load"} ELSE {}) )

\* the handle_key call in progress: its key, the callback it invoked, how
\* that ended, the texts the callback has yet to pass to narrator.speak and
\* the texts uttered so far
NoFlight ==
    [key |-> <<>>, invoked |-> <<>>, raised |-> FALSE, stale |-> FALSE,
     pending |-> <<>>, heard |-> <<>>]

---------------------------------------------------------------------------
(* InboxScreen: a record [built, emails, navigator, active, current_email]; *)
(* current_email is the index of the Email object it refers to             *)

Email(sender, subject, content, date) ==
    [sender |-> sender, subject |-> subject, content |-> content,
     date |-> date, read |-> FALSE]

Email_get_summary(email) ==
    <<IF email.read THEN "read" ELSE "unread", ", From ", email.sender, ", ",
      email.subject, ", ", email.date>>

Email_mark_read(email) == [email EXCEPT !.read = TRUE]

\* self.current_email = None
NoEmail == -1

load_sample_emails ==
    << Email("Board of Directors", "Welcome to the Club",
             "Welcome to your new role as manager. We have high expectations for this season. Please review the squad and make any necessary signings. Good luck!",
             "1 Jan 2026"),
       Email("Assistant Manager", "Squad Training Report",
             "The team is looking sharp in training. Fitness levels are good overall, but we need to work on set pieces. Player morale is high.",
             "3 Jan 2026"),
       Email("Chief Scout", "New Talent Identified",
             "We've identified a promising young striker from the academy. Age 18, good potential. Recommend adding to first team squad for development.",
             "5 Jan 2026"),
       Email("Director of Football", "Transfer Budget Update",
             "Your transfer budget for this window is £10 million. The board expects us to strengthen the midfield area. Several targets have been shortlisted.",
             "7 Jan 2026") >>

\* a new NavigationHelper over the summaries: its cursor is at 0
InboxScreen_update_navigator(s) ==
    [s EXCEPT !.navigator =
        NavigationHelper([i \in 1..Len(s.emails) |->
                             Email_get_summary(s.emails[i])])]

NoInbox ==
    [built |-> FALSE, emails |-> <<>>, navigator |-> NavigationHelper(<<>>),
     active |-> FALSE, current_email |-> NoEmail]

InboxScreen ==
    InboxScreen_update_navigator(
        [built |-> TRUE, emails |-> load_sample_emails,
         navigator |-> NavigationHelper(<<>>), active |-> FALSE,
         current_email |-> NoEmail])

InboxScreen_setup_bindings ==
    << <<K_up, Method("inbox", "previous_email")>>,
       <<K_down, Method("inbox", "next_email")>>,
       <<K_enter, Method("inbox", "open_email")>>,
       <<K_r, Method("inbox", "read_full_email")>>,
       <<K_escape, Method("inbox", "back")>>,
       <<K_h, Method("inbox", "show_help")>> >>

\* the number of emails e with not e.read
unread_count(emails) ==
    Cardinality({i \in 1..Len(emails) : ~emails[i].read})

InboxScreen_read_current_summary(s) ==
    IF s.active
    THEN Ret(s, << <<"Email ", str(get_current_index(s.navigator) + 1),
                     " of ", str(Len(s.emails)), ": ">>
                   \o get_current(s.navigator) >>)
    ELSE Ret(s, <<>>)

\* activate also calls set_navigation_mode('inbox'): see ActivateInbox
InboxScreen_activate(s) ==
    LET on == [s EXCEPT !.active = TRUE]
    IN  Ret(on, << <<"Inbox. ", str(Len(on.emails)), " total messages, ",
                     str(unread_count(on.emails)), " unread.">> >>
                \o InboxScreen_read_current_summary(on).said)

InboxScreen_deactivate(s) ==
    Ret([s EXCEPT !.active = FALSE, !.current_email = NoEmail], <<>>)

InboxScreen_next_email(s) ==
    IF s.active
    THEN LET r == next(s.navigator)
         IN  Ret([s EXCEPT !.navigator = r.self], <<r.ret>>)
    ELSE Ret(s, <<>>)

InboxScreen_previous_email(s) ==
    IF s.active
    THEN LET r == previous(s.navigator)
         IN  Ret([s EXCEPT !.navigator = r.self], <<r.ret>>)
    ELSE Ret(s, <<>>)

InboxScreen_read_full_email(s) ==
    IF s.active
    THEN LET email == s.emails[get_current_index(s.navigator) + 1]
         IN  Ret(s, << <<"Email from ", email.sender, ", dated ", email.date,
                         ". ", "Subject: ", email.subject, ". ",
                         "Message: ", email.content>> >>)
    ELSE Ret(s, <<>>)

\* open_email() that leaves the cursor where the new navigator starts
InboxScreen_open_email_rewound(s) ==
    IF s.active
    THEN LET index == get_current_index(s.navigator)
             marked == [s EXCEPT !.current_email = index,
                                 !.emails[index + 1] = Email_mark_read(@)]
             rebuilt == InboxScreen_update_navigator(marked)
         IN  Ret(rebuilt, InboxScreen_read_full_email(rebuilt).said)
    ELSE Ret(s, <<>>)

\* current_email is the object in the list, so mark_read writes the list's
\* email; the navigator is made anew and its cursor is set back to index
InboxScreen_open_email(s) ==
    IF s.active
    THEN LET index == get_current_index(s.navigator)
             marked == [s EXCEPT !.current_email = index,
                                 !.emails[index + 1] = Email_mark_read(@)]
             rebuilt == InboxScreen_update_navigator(marked)
             moved == [rebuilt EXCEPT !.navigator =
                                         set_index(rebuilt.navigator, index).self]
         IN  Ret(moved, InboxScreen_read_full_email(moved).said)
    ELSE Ret(s, <<>>)

InboxScreen_show_help(s) ==
    IF s.active
    THEN Ret(s, << <<"Inbox Help. Use up and down arrows to navigate emails. Press Enter or R to read full email. Press Escape to return to main menu. Press H for help.">> >>)
    ELSE Ret(s, <<>>)

InboxScreen_back(s) ==
    Ret(InboxScreen_deactivate(s).self, << <<"Returning to main menu">> >>)

\* a NavigationHelper call: its name, its index argument (or the index it
\* returned), the item it returned and the index before the call
NoNavCall == [op |-> "none", index |-> 0, ret |-> EmptyStr, before |-> 0]

\* a call before the last one: its name if it moved the cursor by one step
\* and the index before it
NoNavPrev == [op |-> "other", index |-> 0]

\* a run of n calls of next() (or of previous()) that began at index 0
NoNavRun == [op |-> "none", n |-> 0]

\* no NavigationHelper is driven
NavIdle ==
    /\ navigator = NavigationHelper(<<>>)
    /\ navCall = NoNavCall
    /\ navPrev = NoNavPrev
    /\ navRun = NoNavRun

\* what a configuration file holds: no file, text that is not JSON, JSON
\* that is not an object, or an object of preset name -> value, in order
NoDoc == [kind |-> "none", items |-> <<>>]

\* a KeyboardMapper call: its name, its arguments, whether it returned True
\* and whether an exception left it
NoMapCall ==
    [op |-> "none", preset |-> NoPreset, base |-> NoPreset, key |-> <<>>,
     action |-> "", doc |-> NoDoc, ret |-> FALSE, raised |-> FALSE]

\* the caller of get_mappings holds no map yet; when it holds one, alias is
\* the mapper's object that the map is (0: an object of the caller's own)
NoReturned == [held |-> FALSE, alias |-> 0, preset |-> NoPreset, items |-> <<>>]

\* the mapper that ProjectTouchline constructs, left alone
MapperIdle ==
    /\ keyboard_mapper = KeyboardMapper
    /\ mapCall = NoMapCall
    /\ copies = {}
    /\ written = {}
    /\ returned = NoReturned

\* a parse_key_combo call: the tokens its caller joined with '+', the
\* argument they make and the (modifiers, key) it returned
NoParseCall ==
    [op |-> "none", tokens |-> <<>>, key_string |-> <<>>, modifiers |-> <<>>,
     key |-> <<>>]

\* parse_key_combo is not called
ParseIdle == parseCall = NoParseCall

\* an InboxScreen call: its name, the cursor before it and what it said
NoInboxCall == [op |-> "none", before |-> 0, said |-> <<>>]

\* no InboxScreen is driven
InboxIdle ==
    /\ inbox = NoInbox
    /\ inboxCall = NoInboxCall

\* no MatchDayScreen is constructed
NoMatchDay == [built |-> FALSE, active |-> FALSE, events |-> <<>>,
               current_event_index |-> 0]

\* a MatchDayScreen call: its name, the cursor before it and what it said
NoMatchCall == [op |-> "none", before |-> 0, said |-> <<>>]

\* no MatchDayScreen is driven
MatchIdle ==
    /\ matchday = NoMatchDay
    /\ matchCall = NoMatchCall

\* self.country_filter = None and self.division_filter = None
NoCountry == "None"

NoDivision == 0

\* no ClubSelectionScreen is constructed
NoClubSelection ==
    [built |-> FALSE, active |-> FALSE, all_clubs |-> <<>>,
     filtered_clubs |-> <<>>, navigator |-> NavigationHelper(<<>>),
     country_filter |-> NoCountry, division_filter |-> NoDivision]

\* a ClubSelectionScreen call: its name, whether an exception left it and
\* what it said
NoClubCall == [op |-> "none", raised |-> FALSE, said |-> <<>>]

\* no ClubSelectionScreen is driven
ClubsIdle ==
    /\ club_selection = NoClubSelection
    /\ clubCall = NoClubCall

---------------------------------------------------------------------------
(* The handler driven by a host: any call, any argument *)

\* InputHandler(): no binding, mode 'menu'; no screen is constructed yet
\* and nothing is being dispatched or spoken
HandlerInit ==
    /\ hotkeys = <<>>
    /\ navigation_mode = "menu"
    /\ lastCall = NoCall
    /\ prevCall = Brief(NoCall)
    /\ expected = EmptyMap
    /\ clearedSinceBind = FALSE
    /\ main_menu = NoMainMenu
    /\ save_load = NoSaveLoad
    /\ narrator = NarrationEngine(TRUE, FALSE)
    /\ deactivated = {}
    /\ pc = [t \in Threads |-> IF t = DispatchThread THEN "idle" ELSE "off"]
    /\ job = [t \in Threads |-> NoJob]
    /\ inflight = NoFlight

Init ==
    HandlerInit /\ NavIdle /\ MapperIdle /\ ParseIdle /\ InboxIdle /\ MatchIdle
    /\ ClubsIdle

Bind(key, cb) ==
    /\ hotkeys' = bind(hotkeys, key, cb)
    /\ expected' = HistBind(expected, key, cb)
    /\ clearedSinceBind' = FALSE
    /\ lastCall' = [NoCall EXCEPT !.op = "bind", !.key = key, !.cb = cb,
                       !.replaced = Bound(key) /\ expected[lower(key)] # cb]
    /\ prevCall' = Brief(lastCall)
    /\ UNCHANGED navigation_mode

Unbind(key) ==
    /\ hotkeys' = unbind(hotkeys, key)
    /\ expected' = HistUnbind(expected, key)
    /\ lastCall' = [NoCall EXCEPT !.op = "unbind", !.key = key,
                       !.replaced = Bound(key)]
    /\ prevCall' = Brief(lastCall)
    /\ UNCHANGED <<navigation_mode, clearedSinceBind>>

\* handle_key; no callback of the model calls back into the handler
Dispatch(key) ==
    LET cbs == handle_key_dispatch(hotkeys, key)
        found == cbs # <<>>
        call == IF found THEN Invoke(cbs[1]) ELSE Invoke(NoCallback)
        res == handle_key_result(found, call.raised)
    IN  /\ main_menu' = call.main_menu
        /\ save_load' = call.save_load
        /\ deactivated' = Deactivated(call.main_menu, call.save_load)
        /\ lastCall' = [NoCall EXCEPT !.op = "handle_key", !.key = key,
                           !.invoked = cbs, !.raised = call.raised,
                           !.escaped = res.escaped, !.ret = res.ret,
                           !.stale = found /\ cbs[1].owner \in deactivated,
                           !.heard = speak_all(narrator, call.said)]
        /\ UNCHANGED <<hotkeys, navigation_mode, expected, clearedSinceBind,
                       narrator>>

HandleKey(key) == Dispatch(key) /\ prevCall' = Brief(lastCall)

SetNavigationMode(mode) ==
    /\ navigation_mode' = set_navigation_mode(navigation_mode, mode)
    /\ lastCall' = [NoCall EXCEPT !.op = "set_navigation_mode", !.mode = mode]
    /\ prevCall' = Brief(lastCall)
    /\ UNCHANGED <<hotkeys, expected, clearedSinceBind>>

ClearBindings ==
    /\ hotkeys' = clear_bindings(hotkeys)
    /\ expected' = EmptyMap
    /\ clearedSinceBind' = TRUE
    /\ lastCall' = [NoCall EXCEPT !.op = "clear_bindings",
                       !.count = Cardinality(DOMAIN expected)]
    /\ prevCall' = Brief(lastCall)
    /\ UNCHANGED navigation_mode

Next ==
    \/ \E key \in RawKeys, cb \in HostCallbacks : Bind(key, cb) /\ UNCHANGED <<scrVars, thrVars, libVars>>
    \/ \E key \in RawKeys : Unbind(key) /\ UNCHANGED <<scrVars, thrVars, libVars>>
    \/ \E key \in RawKeys : HandleKey(key) /\ UNCHANGED <<thrVars, libVars>>
    \/ \E mode \in ModeInputs : SetNavigationMode(mode) /\ UNCHANGED <<scrVars, thrVars, libVars>>
    \/ ClearBindings /\ UNCHANGED <<scrVars, thrVars, libVars>>

Spec == Init /\ [][Next]_vars

---------------------------------------------------------------------------
(* The screens on one handler: constructed, activated, deactivated, and    *)
(* keys dispatched to them                                                 *)

\* the keys the screens bind, and one of them in upper case
ScreenKeys == {K_up, K_down, K_enter, K_escape, K_r, K_R, K_h, K_delete}

\* MainMenuScreen(narrator, input_handler)
ConstructMainMenu ==
    /\ ~main_menu.built
    /\ main_menu' = MainMenuScreen
    /\ hotkeys' = bind_all(hotkeys, MainMenuScreen_setup_bindings)
    /\ expected' = HistBindAll(expected, MainMenuScreen_setup_bindings)
    /\ clearedSinceBind' = FALSE
    /\ lastCall' = [NoCall EXCEPT !.op = "construct",
                       !.cb = Method("main_menu", "__init__")]
    /\ UNCHANGED prevCall
    /\ UNCHANGED <<navigation_mode, save_load, narrator, deactivated>>

\* SaveLoadScreen(narrator, input_handler)
ConstructSaveLoad ==
    /\ ~save_load.built
    /\ save_load' = SaveLoadScreen
    /\ hotkeys' = bind_all(hotkeys, SaveLoadScreen_setup_bindings)
    /\ expected' = HistBindAll(expected, SaveLoadScreen_setup_bindings)
    /\ clearedSinceBind' = FALSE
    /\ lastCall' = [NoCall EXCEPT !.op = "construct",
                       !.cb = Method("save_load", "__init__")]
    /\ UNCHANGED prevCall
    /\ UNCHANGED <<navigation_mode, main_menu, narrator, deactivated>>

ActivateMainMenu ==
    /\ main_menu.built
    /\ LET r == MainMenuScreen_activate(main_menu)
       IN  /\ main_menu' = r.self
           /\ navigation_mode' = set_navigation_mode(navigation_mode, "menu")
           /\ deactivated' = Deactivated(r.self, save_load)
           /\ lastCall' = [NoCall EXCEPT !.op = "activate",
                              !.cb = Method("main_menu", "activate"),
                              !.heard = speak_all(narrator, r.said)]
    /\ UNCHANGED prevCall
    /\ UNCHANGED <<hotkeys, expected, clearedSinceBind, save_load, narrator>>

ActivateSaveLoad(mode) ==
    /\ save_load.built
    /\ LET r == SaveLoadScreen_activate(save_load, mode)
       IN  /\ save_load' = r.self
           /\ navigation_mode' = set_navigation_mode(navigation_mode, "list")
           /\ deactivated' = Deactivated(main_menu, r.self)
           /\ lastCall' = [NoCall EXCEPT !.op = "activate", !.mode = mode,
                              !.cb = Method("save_load", "activate"),
                              !.heard = speak_all(narrator, r.said)]
    /\ UNCHANGED prevCall
    /\ UNCHANGED <<hotkeys, expected, clearedSinceBind, main_menu, narrator>>

DeactivateMainMenu ==
    /\ main_menu.built
    /\ main_menu' = MainMenuScreen_deactivate(main_menu).self
    /\ deactivated' = Deactivated(MainMenuScreen_deactivate(main_menu).self,
                                  save_load)
    /\ lastCall' = [NoCall EXCEPT !.op = "deactivate",
                       !.cb = Method("main_menu", "deactivate")]
    /\ UNCHANGED prevCall
    /\ UNCHANGED <<hotkeys, navigation_mode, expected, clearedSinceBind,
                   save_load, narrator>>

DeactivateSaveLoad ==
    /\ save_load.built
    /\ save_load' = SaveLoadScreen_deactivate(save_load).self
    /\ deactivated' = Deactivated(main_menu,
                                  SaveLoadScreen_deactivate(save_load).self)
    /\ lastCall' = [NoCall EXCEPT !.op = "deactivate",
                       !.cb = Method("save_load", "deactivate")]
    /\ UNCHANGED prevCall
    /\ UNCHANGED <<hotkeys, navigation_mode, expected, clearedSinceBind,
                   main_menu, narrator>>

\* a key press while the screens are up; the call before the last one is
\* kept by the host-driven specification only
PressKey(key) == Dispatch(key) /\ UNCHANGED prevCall

NextScreens ==
    \/ ConstructMainMenu /\ UNCHANGED <<thrVars, libVars>>
    \/ ConstructSaveLoad /\ UNCHANGED <<thrVars, libVars>>
    \/ ActivateMainMenu /\ UNCHANGED <<thrVars, libVars>>
    \/ \E mode \in {"load", "save"} : ActivateSaveLoad(mode) /\ UNCHANGED <<thrVars, libVars>>
    \/ DeactivateMainMenu /\ UNCHANGED <<thrVars, libVars>>
    \/ DeactivateSaveLoad /\ UNCHANGED <<thrVars, libVars>>
    \/ \E key \in ScreenKeys : PressKey(key) /\ UNCHANGED <<thrVars, libVars>>

SpecScreens == Init /\ [][NextScreens]_vars

---------------------------------------------------------------------------
(* Speech, statement by statement.  The main menu is up and active on the  *)
(* handler; the dispatch thread takes a key, runs the bound method, and    *)
(* every narrator.speak of the method runs speak line by line on that      *)
(* thread.  speak_async starts a worker thread that runs speak.            *)
(* engine.say/runAndWait and engine.stop are pyttsx3: runAndWait returns   *)
(* when the utterance is over, and either call may raise.                  *)

\* the state after MainMenuScreen(narrator, input_handler) and activate()
InitSpeech ==
    /\ hotkeys = bind_all(<<>>, MainMenuScreen_setup_bindings)
    /\ expected = HistBindAll(EmptyMap, MainMenuScreen_setup_bindings)
    /\ navigation_mode = set_navigation_mode("menu", "menu")
    /\ lastCall = [NoCall EXCEPT !.op = "activate",
                      !.cb = Method("main_menu", "activate")]
    /\ prevCall = Brief(NoCall)
    /\ clearedSinceBind = FALSE
    /\ main_menu = MainMenuScreen_activate(MainMenuScreen).self
    /\ save_load = NoSaveLoad
    /\ \E enabled \in BOOLEAN, engine \in BOOLEAN :
          narrator = NarrationEngine(enabled, engine)
    /\ deactivated = {}
    /\ pc = [t \in Threads |-> IF t = DispatchThread THEN "idle" ELSE "off"]
    /\ job = [t \in Threads |-> NoJob]
    /\ inflight = NoFlight
    /\ NavIdle
    /\ MapperIdle
    /\ ParseIdle
    /\ InboxIdle
    /\ MatchIdle
    /\ ClubsIdle

\* handle_key, lines 81-84: look the key up and enter the callback; the
\* callback's own statements run here, its speak calls are yet to come
KeyDown(key) ==
    /\ pc[DispatchThread] = "idle"
    /\ LET cbs == handle_key_dispatch(hotkeys, key)
           call == Invoke(cbs[1])
       IN  /\ cbs # <<>>
           /\ main_menu' = call.main_menu
           /\ save_load' = call.save_load
           /\ deactivated' = Deactivated(call.main_menu, call.save_load)
           /\ inflight' = [key |-> key, invoked |-> cbs, raised |-> call.raised,
                           stale |-> cbs[1].owner \in deactivated,
                           pending |-> call.said, heard |-> <<>>]
    /\ pc' = [pc EXCEPT ![DispatchThread] = "callback"]
    /\ UNCHANGED <<hotkeys, navigation_mode, lastCall, prevCall, expected,
                   clearedSinceBind, narrator, job>>

\* handle_key, line 89: no binding
KeyIgnored(key) ==
    /\ pc[DispatchThread] = "idle"
    /\ handle_key_dispatch(hotkeys, key) = <<>>
    /\ lastCall' = [NoCall EXCEPT !.op = "handle_key", !.key = key,
                       !.ret = handle_key_result(FALSE, FALSE).ret]
    /\ UNCHANGED <<hotkeys, navigation_mode, prevCall, expected, clearedSinceBind,
                   scrVars, thrVars>>

\* the callback calls self.narrator.speak(text)
CallbackSpeaks ==
    /\ pc[DispatchThread] = "callback"
    /\ inflight.pending # <<>>
    /\ job' = [job EXCEPT ![DispatchThread] =
                  [text |-> Head(inflight.pending), interrupt |-> TRUE]]
    /\ inflight' = [inflight EXCEPT !.pending = Tail(inflight.pending)]
    /\ pc' = [pc EXCEPT ![DispatchThread] = "speak_60"]
    /\ UNCHANGED <<hotkeys, navigation_mode, lastCall, prevCall, expected,
                   clearedSinceBind, scrVars>>

\* the callback is over and handle_key returns, lines 85-88
KeyHandled ==
    /\ pc[DispatchThread] = "callback"
    /\ inflight.pending = <<>>
    /\ lastCall' = [NoCall EXCEPT !.op = "handle_key", !.key = inflight.key,
                       !.invoked = inflight.invoked, !.raised = inflight.raised,
                       !.escaped = handle_key_result(TRUE, inflight.raised).escaped,
                       !.ret = handle_key_result(TRUE, inflight.raised).ret,
                       !.stale = inflight.stale, !.heard = inflight.heard]
    /\ inflight' = NoFlight
    /\ pc' = [pc EXCEPT ![DispatchThread] = "idle"]
    /\ UNCHANGED <<hotkeys, navigation_mode, prevCall, expected, clearedSinceBind,
                   scrVars, job>>

\* speak_async: thread.start() on a thread that runs speak(text, False),
\* called by the host between two keys
SpeakAsync(t, text) ==
    /\ pc[DispatchThread] = "idle"
    /\ t # DispatchThread
    /\ pc[t] = "off"
    /\ job' = [job EXCEPT ![t] = [text |-> text, interrupt |-> FALSE]]
    /\ pc' = [pc EXCEPT ![t] = "speak_60"]
    /\ UNCHANGED <<hotkeys, navigation_mode, lastCall, prevCall, expected,
                   clearedSinceBind, scrVars, inflight>>

\* where a thread goes when speak returns
Returned(t) == IF t = DispatchThread THEN "callback" ELSE "off"

\* a statement of speak that writes nothing but the thread's position
Goto(t, label) ==
    /\ pc' = [pc EXCEPT ![t] = label]
    /\ UNCHANGED <<hotkeys, navigation_mode, lastCall, prevCall, expected,
                   clearedSinceBind, scrVars, job, inflight>>

\* speak, line 60: if not self.enabled or not text: return
Speak60(t) ==
    /\ pc[t] = "speak_60"
    /\ IF ~narrator.enabled \/ job[t].text = EmptyStr
       THEN Goto(t, Returned(t))
       ELSE Goto(t, "speak_63")

\* speak, lines 63-64: if interrupt and self.speaking: self.stop(); stop,
\* lines 97-102: engine.stop() then speaking = False, or engine.stop() raises
Speak63(t) ==
    /\ pc[t] = "speak_63"
    /\ pc' = [pc EXCEPT ![t] = "speak_66"]
    /\ IF job[t].interrupt /\ narrator.speaking /\ narrator.engine
       THEN \/ narrator' = [narrator EXCEPT !.speaking = FALSE]
            \/ UNCHANGED narrator
       ELSE UNCHANGED narrator
    /\ UNCHANGED <<hotkeys, navigation_mode, lastCall, prevCall, expected,
                   clearedSinceBind, main_menu, save_load, deactivated, job,
                   inflight>>

\* speak, lines 66 and 75-77: without an engine the text is printed
Speak66(t) ==
    /\ pc[t] = "speak_66"
    /\ IF narrator.engine
       THEN /\ pc' = [pc EXCEPT ![t] = "speak_68"]
            /\ UNCHANGED inflight
       ELSE /\ pc' = [pc EXCEPT ![t] = Returned(t)]
            /\ inflight' = IF t = DispatchThread
                           THEN [inflight EXCEPT !.heard = Append(@, job[t].text)]
                           ELSE inflight
    /\ UNCHANGED <<hotkeys, navigation_mode, lastCall, prevCall, expected,
                   clearedSinceBind, scrVars, job>>

\* speak, line 68: self.speaking = True
Speak68(t) ==
    /\ pc[t] = "speak_68"
    /\ narrator' = [narrator EXCEPT !.speaking = TRUE]
    /\ pc' = [pc EXCEPT ![t] = "speak_69"]
    /\ UNCHANGED <<hotkeys, navigation_mode, lastCall, prevCall, expected,
                   clearedSinceBind, main_menu, save_load, deactivated, job,
                   inflight>>

\* speak, lines 69-70: engine.say(text); engine.runAndWait() begins to play
\* the utterance and the thread waits in it; or the engine raises
Speak69(t) ==
    /\ pc[t] = "speak_69"
    /\ \/ Goto(t, "runAndWait")
       \/ Goto(t, "speak_74")

\* engine.runAndWait() returns: the utterance is over; or it raises
RunAndWaitReturns(t) ==
    /\ pc[t] = "runAndWait"
    /\ \/ /\ pc' = [pc EXCEPT ![t] = "speak_71"]
          /\ inflight' = IF t = DispatchThread
                         THEN [inflight EXCEPT !.heard = Append(@, job[t].text)]
                         ELSE inflight
       \/ /\ pc' = [pc EXCEPT ![t] = "speak_74"]
          /\ UNCHANGED inflight
    /\ UNCHANGED <<hotkeys, navigation_mode, lastCall, prevCall, expected,
                   clearedSinceBind, scrVars, job>>

\* speak, line 71, and the except branch, lines 73-74: self.speaking = False
SpeakingOff(t) ==
    /\ pc[t] \in {"speak_71", "speak_74"}
    /\ narrator' = [narrator EXCEPT !.speaking = FALSE]
    /\ pc' = [pc EXCEPT ![t] = Returned(t)]
    /\ UNCHANGED <<hotkeys, navigation_mode, lastCall, prevCall, expected,
                   clearedSinceBind, main_menu, save_load, deactivated, job,
                   inflight>>

\* the keys the main menu binds, one of them in upper case, and one it does not
MenuKeys == {K_up, K_down, K_enter, K_escape, K_r, K_R, K_h, K_delete}

NextSpeech ==
    \/ \E key \in MenuKeys : KeyDown(key) /\ UNCHANGED libVars
    \/ \E key \in MenuKeys : KeyIgnored(key) /\ UNCHANGED libVars
    \/ CallbackSpeaks /\ UNCHANGED libVars
    \/ KeyHandled /\ UNCHANGED libVars
    \/ \E t \in Threads, text \in AsyncTexts : SpeakAsync(t, text) /\ UNCHANGED libVars
    \/ \E t \in Threads : Speak60(t) /\ UNCHANGED libVars
    \/ \E t \in Threads : Speak63(t) /\ UNCHANGED libVars
    \/ \E t \in Threads : Speak66(t) /\ UNCHANGED libVars
    \/ \E t \in Threads : Speak68(t) /\ UNCHANGED libVars
    \/ \E t \in Threads : Speak69(t) /\ UNCHANGED libVars
    \/ \E t \in Threads : RunAndWaitReturns(t) /\ UNCHANGED libVars
    \/ \E t \in Threads : SpeakingOff(t) /\ UNCHANGED libVars

SpecSpeech == InitSpeech /\ [][NextSpeech]_vars

---------------------------------------------------------------------------
(* A NavigationHelper driven by its owner: constructed on any list, then   *)
(* any method with any argument                                            *)

\* the items of a list: two of the main menu's
NavItems == {<<"Load Game - Continue a saved game">>, <<"Quit - Exit the game">>}

\* the lists a NavigationHelper is given
ItemLists == UNION {[1..n -> NavItems] : n \in 0..MaxItems}

\* the indexes set_index is given: one below and two above every list
IndexInputs == -1..(MaxItems + 1)

\* NavigationHelper(items)
InitNav ==
    /\ HandlerInit
    /\ \E items \in ItemLists : navigator = NavigationHelper(items)
    /\ navCall = [NoNavCall EXCEPT !.op = "__init__"]
    /\ navPrev = NoNavPrev
    /\ navRun = NoNavRun
    /\ MapperIdle
    /\ ParseIdle
    /\ InboxIdle
    /\ MatchIdle
    /\ ClubsIdle

\* the call before the next one
NavBrief(c) ==
    IF c.op \in {"next", "previous"}
    THEN [op |-> c.op, index |-> c.before]
    ELSE NoNavPrev

\* the run after one more call of op, which found the cursor at index
NavRunAfter(op, index) ==
    IF navRun.op = op
    THEN [op |-> op, n |-> navRun.n + 1]
    ELSE IF navigator.items # <<>> /\ index = 0
         THEN [op |-> op, n |-> 1]
         ELSE NoNavRun

\* a method that moves the cursor and returns an item has run
NavMoved(op, index, r) ==
    /\ navigator' = r.self
    /\ navCall' = [op |-> op, index |-> index, ret |-> r.ret,
                   before |-> navigator.current_index]
    /\ navPrev' = NavBrief(navCall)

CallNext ==
    /\ navRun.op = "next" => navRun.n < MaxSteps
    /\ NavMoved("next", 0, next(navigator))
    /\ navRun' = NavRunAfter("next", navigator.current_index)

CallPrevious ==
    /\ navRun.op = "previous" => navRun.n < MaxSteps
    /\ NavMoved("previous", 0, previous(navigator))
    /\ navRun' = NavRunAfter("previous", navigator.current_index)

CallFirst ==
    /\ NavMoved("first", 0, first(navigator))
    /\ navRun' = NoNavRun

CallLast ==
    /\ NavMoved("last", 0, last(navigator))
    /\ navRun' = NoNavRun

CallSetIndex(index) ==
    /\ NavMoved("set_index", index, set_index(navigator, index))
    /\ navRun' = NoNavRun

CallUpdateItems(items) ==
    /\ navigator' = update_items(navigator, items)
    /\ navCall' = [op |-> "update_items", index |-> 0, ret |-> EmptyStr,
                   before |-> navigator.current_index]
    /\ navPrev' = NavBrief(navCall)
    /\ navRun' = NoNavRun

\* the two reads
CallGetCurrent ==
    /\ navCall' = [op |-> "get_current", index |-> 0,
                   ret |-> get_current(navigator),
                   before |-> navigator.current_index]
    /\ navPrev' = NavBrief(navCall)
    /\ UNCHANGED <<navigator, navRun>>

CallGetCurrentIndex ==
    /\ navCall' = [op |-> "get_current_index",
                   index |-> get_current_index(navigator),
                   ret |-> EmptyStr,
                   before |-> navigator.current_index]
    /\ navPrev' = NavBrief(navCall)
    /\ UNCHANGED <<navigator, navRun>>

NextNav ==
    \/ CallNext /\ UNCHANGED nonNavVars
    \/ CallPrevious /\ UNCHANGED nonNavVars
    \/ CallFirst /\ UNCHANGED nonNavVars
    \/ CallLast /\ UNCHANGED nonNavVars
    \/ \E index \in IndexInputs : CallSetIndex(index) /\ UNCHANGED nonNavVars
    \/ \E items \in ItemLists : CallUpdateItems(items) /\ UNCHANGED nonNavVars
    \/ CallGetCurrent /\ UNCHANGED nonNavVars
    \/ CallGetCurrentIndex /\ UNCHANGED nonNavVars

SpecNav == InitNav /\ [][NextNav]_vars

---------------------------------------------------------------------------
(* A KeyboardMapper driven by its host: constructed without a              *)
(* configuration file, then any method with any argument                   *)

MapperKeys == {K_r, K_R}

\* actions are free-form strings
ActionInputs == {"custom_a", "custom_b"}

\* preset names: one built in, one that is not, and one never created
PresetOverrides == {NoPreset, "custom"}
PresetNames == {"default", "custom", "missing"}
CreateNames == {"custom"}
BaseInputs == {NoPreset, "default", "custom", "missing"}

\* the values a document gives a preset: an object of one key, or a number
DocPresets == {"default", "custom"}
DocValues == {DictObject(K_r :> "custom_b"), NotADict}

\* the presets of a document: an object has each name once
ConfigItems ==
    {items \in UNION {[1..n -> [preset : DocPresets, mappings : DocValues]] :
                         n \in 0..MaxDocPresets} :
        \A i, j \in 1..Len(items) : i # j => items[i].preset # items[j].preset}

ConfigDocs ==
    {[kind |-> k, items |-> <<>>] : k \in {"missing", "unparsable", "array"}}
    \cup {[kind |-> "object", items |-> items] : items \in ConfigItems}

InitMapper ==
    /\ HandlerInit
    /\ NavIdle
    /\ keyboard_mapper = KeyboardMapper
    /\ mapCall = [NoMapCall EXCEPT !.op = "__init__"]
    /\ copies = {}
    /\ written = {}
    /\ returned = NoReturned
    /\ ParseIdle
    /\ InboxIdle
    /\ MatchIdle
    /\ ClubsIdle

CallLoadConfig(doc) ==
    LET r == load_config(keyboard_mapper, doc)
    IN  /\ keyboard_mapper' = r.self
        /\ mapCall' = [NoMapCall EXCEPT !.op = "load_config", !.doc = doc,
                                        !.raised = r.raised]
        /\ UNCHANGED copies

CallSetPreset(preset_name) ==
    LET r == set_preset(keyboard_mapper, preset_name)
    IN  /\ keyboard_mapper' = r.self
        /\ mapCall' = [NoMapCall EXCEPT !.op = "set_preset",
                                        !.preset = preset_name, !.ret = r.ret]
        /\ UNCHANGED copies

CallMapKey(key, action, preset) ==
    LET r == map_key(keyboard_mapper, key, action, preset)
    IN  /\ keyboard_mapper' = r.self
        /\ mapCall' = [NoMapCall EXCEPT !.op = "map_key", !.key = key,
                                        !.action = action, !.preset = preset,
                                        !.raised = r.raised]
        /\ UNCHANGED copies

CallUnmapKey(key, preset) ==
    LET r == unmap_key(keyboard_mapper, key, preset)
    IN  /\ keyboard_mapper' = r.self
        /\ mapCall' = [NoMapCall EXCEPT !.op = "unmap_key", !.key = key,
                                        !.preset = preset, !.raised = r.raised]
        /\ UNCHANGED copies

CallCreatePreset(name, base_preset) ==
    LET r == create_preset(keyboard_mapper, name, base_preset)
    IN  /\ keyboard_mapper' = r.self
        /\ mapCall' = [NoMapCall EXCEPT !.op = "create_preset",
                                        !.preset = name, !.base = base_preset,
                                        !.raised = r.raised]
        /\ copies' = IF /\ base_preset \in list_presets(keyboard_mapper)
                        /\ base_preset # name
                        /\ ~r.raised
                     THEN copies \cup {<<name, base_preset>>}
                     ELSE copies

NextMapper ==
    \/ \E doc \in ConfigDocs : CallLoadConfig(doc) /\ UNCHANGED <<nonMapVars, written, returned>>
    \/ \E name \in PresetNames : CallSetPreset(name) /\ UNCHANGED <<nonMapVars, written, returned>>
    \/ \E key \in MapperKeys, action \in ActionInputs, preset \in PresetOverrides :
          CallMapKey(key, action, preset) /\ UNCHANGED <<nonMapVars, written, returned>>
    \/ \E key \in MapperKeys, preset \in PresetOverrides :
          CallUnmapKey(key, preset) /\ UNCHANGED <<nonMapVars, written, returned>>
    \/ \E name \in CreateNames, base \in BaseInputs :
          CallCreatePreset(name, base) /\ UNCHANGED <<nonMapVars, written, returned>>

SpecMapper == InitMapper /\ [][NextMapper]_vars

---------------------------------------------------------------------------
(* A KeyboardMapper written and read: as above, with lookups, with         *)
(* documents that name one preset and may spell a key in upper case, and   *)
(* with a record of what map_key wrote                                     *)

\* the preset overrides of a lookup: those of a write and a name never created
LookupPresets == PresetOverrides \cup {"missing"}

\* documents that give custom one key, in lower or in upper case, or a number
LookupDocs ==
    {[kind |-> "object", items |-> <<[preset |-> "custom", mappings |-> v]>>] :
        v \in {DictObject(K_r :> "custom_b"), DictObject(K_R :> "custom_a"),
               NotADict}}

\* what map_key wrote, less the entries for key (in lower case) in preset p
Rewritten(p, key) == {w \in written : ~(w.preset = p /\ w.key = key)}

\* the spellings of key that map_key calls in a row have written in preset p
Spellings(p, key) ==
    UNION {w.spelt : w \in {v \in written : v.preset = p /\ v.key = key}}

\* what map_key wrote, less the entries for the keys that a document names
RewrittenBy(doc) ==
    {w \in written :
        ~\E i \in 1..Len(doc.items) :
            /\ doc.items[i].preset = w.preset
            /\ \E k \in DOMAIN doc.items[i].mappings.items : lower(k) = w.key}

\* a read: the mapper is not written
CallGetAction(key, preset) ==
    LET r == get_action(keyboard_mapper, key, preset)
    IN  /\ mapCall' = [NoMapCall EXCEPT !.op = "get_action", !.key = key,
                                        !.preset = preset,
                                        !.action = r.action, !.ret = r.found,
                                        !.raised = r.raised]
        /\ UNCHANGED <<keyboard_mapper, copies>>

NextLookup ==
    \/ \E doc \in LookupDocs :
          /\ CallLoadConfig(doc)
          /\ written' = RewrittenBy(doc)
          /\ UNCHANGED <<nonMapVars, returned>>
    \/ \E name \in PresetNames :
          CallSetPreset(name) /\ UNCHANGED <<nonMapVars, written, returned>>
    \/ \E key \in MapperKeys, action \in ActionInputs, preset \in PresetOverrides :
          /\ CallMapKey(key, action, preset)
          /\ written' =
                Rewritten(preset_or_current(keyboard_mapper, preset), lower(key))
                \cup {[preset |-> preset_or_current(keyboard_mapper, preset),
                       key |-> lower(key), action |-> action,
                       spelt |-> {key} \cup Spellings(
                           preset_or_current(keyboard_mapper, preset),
                           lower(key))]}
          /\ UNCHANGED <<nonMapVars, returned>>
    \/ \E key \in MapperKeys, preset \in PresetOverrides :
          /\ CallUnmapKey(key, preset)
          /\ written' =
                Rewritten(preset_or_current(keyboard_mapper, preset), lower(key))
          /\ UNCHANGED <<nonMapVars, returned>>
    \/ \E name \in CreateNames, base \in BaseInputs :
          CallCreatePreset(name, base) /\ UNCHANGED <<nonMapVars, written, returned>>
    \/ \E key \in MapperKeys, preset \in LookupPresets :
          CallGetAction(key, preset) /\ UNCHANGED <<nonMapVars, written, returned>>

SpecLookup == InitMapper /\ [][NextLookup]_vars

---------------------------------------------------------------------------
(* The caller of get_mappings edits the map it was given *)

\* the map the caller holds: the mapper's object when it is one
HeldItems ==
    IF returned.alias \in DOMAIN keyboard_mapper.objects
    THEN keyboard_mapper.objects[returned.alias].items
    ELSE returned.items

\* an edit of the held map writes the object that the map is
HostEdit(op, key, action, items) ==
    /\ returned.held
    /\ returned' = [returned EXCEPT !.items = items]
    /\ keyboard_mapper' =
          IF returned.alias \in DOMAIN keyboard_mapper.objects
          THEN [keyboard_mapper EXCEPT !.objects[returned.alias].items = items]
          ELSE keyboard_mapper
    /\ mapCall' = [NoMapCall EXCEPT !.op = op, !.key = key, !.action = action]
    /\ UNCHANGED copies

\* held = mapper.get_mappings(preset)
CallGetMappings(preset) ==
    LET r == get_mappings(keyboard_mapper, preset)
    IN  /\ returned' =
              IF r.raised THEN returned
              ELSE [held |-> TRUE, alias |-> r.alias,
                    preset |-> preset_or_current(keyboard_mapper, preset),
                    items |-> r.ret]
        /\ mapCall' = [NoMapCall EXCEPT !.op = "get_mappings",
                                        !.preset = preset, !.raised = r.raised]
        /\ UNCHANGED <<keyboard_mapper, copies>>

\* held[key] = action
HostSetItem(key, action) ==
    HostEdit("host_setitem", key, action, SetItem(HeldItems, key, action))

\* held.pop(key, None)
HostDelItem(key) ==
    HostEdit("host_delitem", key, "", DelItem(HeldItems, key))

NextCopy ==
    \/ \E preset \in LookupPresets :
           CallGetMappings(preset) /\ UNCHANGED <<nonMapVars, written>>
    \/ \E key \in MapperKeys, action \in ActionInputs :
           HostSetItem(key, action) /\ UNCHANGED <<nonMapVars, written>>
    \/ \E key \in MapperKeys :
           HostDelItem(key) /\ UNCHANGED <<nonMapVars, written>>
    \/ \E key \in MapperKeys, action \in ActionInputs, preset \in PresetOverrides :
           CallMapKey(key, action, preset)
           /\ UNCHANGED <<nonMapVars, written, returned>>
    \/ \E preset_name \in PresetNames :
           CallSetPreset(preset_name)
           /\ UNCHANGED <<nonMapVars, written, returned>>

SpecCopy == InitMapper /\ [][NextCopy]_vars

----------------------------------------------------------------------------
(* parse_key_combo on a handler that has, or has not, a binding *)

\* the tokens a caller writes: a modifier, a modifier and a base key with an
\* upper-case letter
ComboTokens == {K_ctrl, K_Shift, K_S}

\* one to MaxTokens tokens, and the empty string alone
TokenLists ==
    {<<EmptyStr>>} \cup UNION {[1..n -> ComboTokens] : n \in 1..MaxTokens}

\* '+'.join(tokens)
RECURSIVE JoinPlus(_)
JoinPlus(tokens) ==
    IF Len(tokens) = 1 THEN tokens[1]
    ELSE tokens[1] \o <<Plus>> \o JoinPlus(Tail(tokens))

InitParse ==
    /\ HandlerInit
    /\ NavIdle
    /\ MapperIdle
    /\ InboxIdle
    /\ MatchIdle
    /\ ClubsIdle
    /\ parseCall = NoParseCall

\* parse_key_combo reads its argument and writes no attribute of the handler
CallParseKeyCombo(tokens) ==
    LET r == parse_key_combo(JoinPlus(tokens))
    IN  /\ parseCall' = [op |-> "parse_key_combo", tokens |-> tokens,
                         key_string |-> JoinPlus(tokens),
                         modifiers |-> r.modifiers, key |-> r.key]
        /\ UNCHANGED hdlVars

NextParse ==
    \/ \E tokens \in TokenLists :
          CallParseKeyCombo(tokens)
          /\ UNCHANGED <<scrVars, thrVars, navVars, mapVars, inboxVars,
                         matchVars, clubVars>>
    \/ \E cb \in HostCallbacks :
          Bind(K_R, cb) /\ UNCHANGED <<scrVars, thrVars, libVars>>

SpecParse == InitParse /\ [][NextParse]_vars

----------------------------------------------------------------------------
(* The InboxScreen driven by its key bindings' callbacks *)

\* the state after InboxScreen(narrator, input_handler), whose constructor
\* binds the six keys
InitInbox ==
    /\ hotkeys = bind_all(<<>>, InboxScreen_setup_bindings)
    /\ navigation_mode = "menu"
    /\ lastCall = NoCall
    /\ prevCall = Brief(NoCall)
    /\ expected = HistBindAll(EmptyMap, InboxScreen_setup_bindings)
    /\ clearedSinceBind = FALSE
    /\ main_menu = NoMainMenu
    /\ save_load = NoSaveLoad
    /\ \E enabled \in BOOLEAN : narrator = NarrationEngine(enabled, TRUE)
    /\ deactivated = {}
    /\ pc = [t \in Threads |-> IF t = DispatchThread THEN "idle" ELSE "off"]
    /\ job = [t \in Threads |-> NoJob]
    /\ inflight = NoFlight
    /\ NavIdle
    /\ MapperIdle
    /\ ParseIdle
    /\ MatchIdle
    /\ ClubsIdle
    /\ inbox = InboxScreen
    /\ inboxCall = [NoInboxCall EXCEPT !.op = "__init__"]

\* a method of the screen is called: the screen it leaves and what the
\* narrator utters
InboxCalled(op, r) ==
    /\ inbox' = r.self
    /\ inboxCall' = [op |-> op, before |-> get_current_index(inbox.navigator),
                     said |-> speak_all(narrator, r.said)]

ActivateInbox ==
    /\ InboxCalled("activate", InboxScreen_activate(inbox))
    /\ navigation_mode' = set_navigation_mode(navigation_mode, "inbox")
    /\ UNCHANGED <<hotkeys, lastCall, prevCall, expected, clearedSinceBind>>

DeactivateInbox ==
    InboxCalled("deactivate", InboxScreen_deactivate(inbox)) /\ UNCHANGED hdlVars

NextEmail ==
    InboxCalled("next_email", InboxScreen_next_email(inbox)) /\ UNCHANGED hdlVars

PreviousEmail ==
    InboxCalled("previous_email", InboxScreen_previous_email(inbox))
    /\ UNCHANGED hdlVars

ReadCurrentSummary ==
    InboxCalled("read_current_summary", InboxScreen_read_current_summary(inbox))
    /\ UNCHANGED hdlVars

OpenEmail ==
    InboxCalled("open_email", InboxScreen_open_email(inbox)) /\ UNCHANGED hdlVars

ReadFullEmail ==
    InboxCalled("read_full_email", InboxScreen_read_full_email(inbox))
    /\ UNCHANGED hdlVars

ShowHelpInbox ==
    InboxCalled("show_help", InboxScreen_show_help(inbox)) /\ UNCHANGED hdlVars

BackInbox ==
    InboxCalled("back", InboxScreen_back(inbox)) /\ UNCHANGED hdlVars

\* all but the InboxScreen and the handler
nonInboxVars == <<scrVars, thrVars, navVars, mapVars, parseVars, matchVars,
                  clubVars>>

NextInbox ==
    \/ ActivateInbox /\ UNCHANGED nonInboxVars
    \/ DeactivateInbox /\ UNCHANGED nonInboxVars
    \/ NextEmail /\ UNCHANGED nonInboxVars
    \/ PreviousEmail /\ UNCHANGED nonInboxVars
    \/ ReadCurrentSummary /\ UNCHANGED nonInboxVars
    \/ OpenEmail /\ UNCHANGED nonInboxVars
    \/ ReadFullEmail /\ UNCHANGED nonInboxVars
    \/ ShowHelpInbox /\ UNCHANGED nonInboxVars
    \/ BackInbox /\ UNCHANGED nonInboxVars

SpecInbox == InitInbox /\ [][NextInbox]_vars

----------------------------------------------------------------------------
(* Claims about InputHandler, checked under Spec *)

\* C1: if a binding exists for the lower-cased key and its callback raises
\* during handle_key, handle_key still returns true.
C1_RaisingCallbackReturnsTrue ==
    (lastCall.op = "handle_key" /\ Bound(lastCall.key) /\ lastCall.raised)
        => lastCall.ret = TRUE

\* C2: a callback failure never leaves handle_key and never damages the
\* dispatch table: the handle_key call whose callback raised leaves the
\* bindings as they were, and the handle_key call that follows it, for a key
\* bound to a callback that returns, invokes that callback and returns true.
C2_FailureIsContained ==
    [][ /\ (lastCall'.op = "handle_key" /\ lastCall'.raised)
            => (~lastCall'.escaped /\ hotkeys' = hotkeys)
        /\ ( /\ lastCall.op = "handle_key" /\ lastCall.raised
             /\ lastCall'.op = "handle_key" /\ Bound(lastCall'.key)
             /\ ~Raises(expected[lower(lastCall'.key)]) )
            => /\ lastCall'.invoked = <<expected[lower(lastCall'.key)]>>
               /\ lastCall'.ret = TRUE
               /\ ~lastCall'.escaped
               /\ hotkeys' = hotkeys ]_vars

\* C2 witness: a handle_key that dispatched and returned true right after a
\* handle_key whose callback raised
C2_Witness ==
    /\ prevCall.op = "handle_key" /\ prevCall.raised
    /\ lastCall.op = "handle_key" /\ lastCall.ret = TRUE
    /\ lastCall.invoked = <<expected[lower(lastCall.key)]>>
    /\ Len(list_bindings(hotkeys)) = 2

\* C3: after bind(k, label, cb), handle_key of k in any letter case invokes
\* cb exactly once and no other callback, and returns true.
C3_BoundKeyDispatchesAndReturnsTrue ==
    (lastCall.op = "handle_key" /\ Bound(lastCall.key))
        => /\ lastCall.invoked = <<expected[lower(lastCall.key)]>>
           /\ lastCall.ret = TRUE

\* C4: handle_key for a key with no binding returns false, invokes no
\* callback, and changes neither the bindings nor the navigation mode.
C4_UnboundKeyIsIgnored ==
    [][ (lastCall'.op = "handle_key" /\ ~Bound(lastCall'.key))
            => /\ lastCall'.ret = FALSE
               /\ lastCall'.invoked = <<>>
               /\ ~lastCall'.escaped
               /\ hotkeys' = hotkeys
               /\ navigation_mode' = navigation_mode ]_vars

\* C4 witness: handle_key of an unbound key while another key is bound
C4_Witness ==
    /\ lastCall.op = "handle_key" /\ ~Bound(lastCall.key)
    /\ lastCall.ret = FALSE /\ lastCall.invoked = <<>>
    /\ hotkeys # <<>>

\* C5: when a screen is deactivated its bindings are cleared from the
\* handler, so the handler holds no callback of a deactivated screen and no
\* handle_key invokes one.  Checked under SpecScreens.
C5_DeactivatedScreenIsUnbound ==
    /\ \A i \in 1..Len(hotkeys) : hotkeys[i].cb.owner \notin deactivated
    /\ lastCall.op = "handle_key" => ~lastCall.stale

\* C6: a callback dispatched by handle_key that starts speech returns without
\* waiting for the speech to finish: the dispatch thread is never inside
\* engine.runAndWait(), where a thread waits for the utterance to end.
\* Checked under SpecSpeech.
C6_DispatchNeverWaitsForSpeech == pc[DispatchThread] # "runAndWait"

\* C7: set_navigation_mode with a value outside {menu, list, form, match}
\* leaves the mode unchanged; get_navigation_mode returns one of the four in
\* every reachable state, and menu initially.
C7_ModeIsAlwaysValid ==
    /\ [](get_navigation_mode \in {"menu", "list", "form", "match"})
    /\ [](lastCall.op = "init" => get_navigation_mode = "menu")
    /\ [][ ( /\ lastCall'.op = "set_navigation_mode"
             /\ lastCall'.mode \notin {"menu", "list", "form", "match"} )
            => navigation_mode' = navigation_mode ]_vars

\* C7 witness: an invalid mode was just rejected while the mode was not the
\* initial one
C7_Witness ==
    /\ lastCall.op = "set_navigation_mode"
    /\ lastCall.mode = "bogus"
    /\ navigation_mode = "match"

\* C8: at most one callback per normalized key: list_bindings never holds
\* two keys that differ only in letter case, and handle_key of a bound key
\* invokes the callback bound to it last, and only that one.
C8_OneCallbackPerKey ==
    /\ \A i, j \in 1..Len(list_bindings(hotkeys)) :
          i # j => lower(list_bindings(hotkeys)[i]) # lower(list_bindings(hotkeys)[j])
    /\ (lastCall.op = "handle_key" /\ Bound(lastCall.key))
          => lastCall.invoked = <<expected[lower(lastCall.key)]>>

\* C8 witness: the only key bound was rebound to another callback, and
\* handle_key of the key in upper case has invoked the new callback
C8_Witness ==
    /\ prevCall.op = "bind" /\ prevCall.replaced
    /\ lastCall.op = "handle_key"
    /\ lastCall.key # lower(lastCall.key)
    /\ lastCall.invoked = <<expected[lower(lastCall.key)]>>
    /\ Len(list_bindings(hotkeys)) = 1

\* C9: after clear_bindings, list_bindings is empty and handle_key returns
\* false for every key, until a new bind; clear_bindings leaves the
\* navigation mode unchanged.
C9_ClearRemovesEverything ==
    /\ [](clearedSinceBind =>
            /\ list_bindings(hotkeys) = <<>>
            /\ (lastCall.op = "handle_key"
                   => lastCall.ret = FALSE /\ lastCall.invoked = <<>>))
    /\ [][ lastCall'.op = "clear_bindings"
            => navigation_mode' = navigation_mode ]_vars

\* C9 witness: handle_key right after a clear_bindings that removed bindings
C9_Witness ==
    /\ clearedSinceBind
    /\ prevCall.op = "clear_bindings" /\ prevCall.count > 0
    /\ lastCall.op = "handle_key" /\ lastCall.ret = FALSE
    /\ navigation_mode # "menu"

\* C10: list_bindings is exactly the set of lower-cased keys bound and not
\* unbound or cleared since, each still with the callback bound to it last;
\* unbind of an absent key changes nothing.
C10_BindingsFollowHistory ==
    /\ []( /\ {list_bindings(hotkeys)[i] : i \in 1..Len(list_bindings(hotkeys))}
                = DOMAIN expected
           /\ \A k \in DOMAIN expected :
                handle_key_dispatch(hotkeys, k) = <<expected[k]>> )
    /\ [][ (lastCall'.op = "unbind" /\ ~lastCall'.replaced)
            => hotkeys' = hotkeys /\ navigation_mode' = navigation_mode ]_vars

\* C10 witness: an unbind in another letter case removed one binding and left
\* another
C10_Witness ==
    /\ lastCall.op = "unbind" /\ lastCall.replaced
    /\ lastCall.key # lower(lastCall.key)
    /\ Len(list_bindings(hotkeys)) = 1

---------------------------------------------------------------------------
(* Claims about NavigationHelper, checked under SpecNav *)

\* C11: in every state reached by construction, next, previous, first, last,
\* set_index and update_items, the index is within the list whenever the list
\* is nonempty, and is 0 whenever the list is empty
C11_IndexWithinList ==
    /\ navigator.items # <<>> =>
          /\ 0 <= navigator.current_index
          /\ navigator.current_index < Len(navigator.items)
    /\ navigator.items = <<>> => navigator.current_index = 0

\* set_index was given the length of a list of two or more items as the
\* index, with the cursor on the last item
C11_Witness ==
    /\ navCall.op = "set_index"
    /\ Len(navigator.items) >= 2
    /\ navCall.index = Len(navigator.items)
    /\ navigator.current_index = Len(navigator.items) - 1

\* C12: on a nonempty list, n calls of next() from index 0 leave the index at
\* n mod length, and n calls of previous() from index 0 leave it at
\* (-n) mod length
C12_RunWraps ==
    /\ navRun.op = "next" =>
          /\ navigator.items # <<>>
          /\ navigator.current_index = navRun.n % Len(navigator.items)
    /\ navRun.op = "previous" =>
          /\ navigator.items # <<>>
          /\ navigator.current_index = (0 - navRun.n) % Len(navigator.items)

\* three calls of next() from index 0 of a list of two items: the cursor has
\* wrapped once and is on the second item
C12_Witness ==
    /\ navRun = [op |-> "next", n |-> 3]
    /\ Len(navigator.items) = 2
    /\ navigator.current_index = 1
    /\ navCall.op = "next" /\ navCall.ret = navigator.items[2]

\* C13: on a list of one or more items, next() followed at once by previous(),
\* and previous() followed at once by next(), leave the index where it was
\* before the pair
C13_NextPreviousInverse ==
    (/\ Len(navigator.items) >= 1
     /\ \/ navPrev.op = "next" /\ navCall.op = "previous"
        \/ navPrev.op = "previous" /\ navCall.op = "next")
    => navigator.current_index = navPrev.index

\* next() from the last of three items wrapped to the first, and previous()
\* has brought the cursor back to the last
C13_Witness ==
    /\ Len(navigator.items) = 3
    /\ navPrev = [op |-> "next", index |-> 2]
    /\ navCall.op = "previous" /\ navCall.before = 0
    /\ navigator.current_index = 2

\* C14: set_index(i) with i outside the list (negative, too large, or any i
\* on an empty list) leaves the index as it was and returns the empty
\* string; with i inside the list it makes i the index and returns the item
\* at i
C14_SetIndexIsValidated ==
    navCall.op = "set_index" =>
        IF 0 <= navCall.index /\ navCall.index < Len(navigator.items)
        THEN /\ navigator.current_index = navCall.index
             /\ navCall.ret = navigator.items[navCall.index + 1]
        ELSE /\ navigator.current_index = navCall.before
             /\ navCall.ret = EmptyStr

\* set_index(-1) with the cursor on the third item: the cursor stays there
C14_Witness ==
    /\ navCall.op = "set_index" /\ navCall.index = -1
    /\ navCall.before = 2
    /\ navigator.current_index = 2
    /\ navCall.ret = EmptyStr

\* C15: after update_items(items), get_current_index() is 0 whatever the index
\* and the lists were, and get_current() is the first of the new items, or
\* the empty string if there is none
C15_UpdateItemsResetsIndex ==
    navCall.op = "update_items" =>
        /\ get_current_index(navigator) = 0
        /\ get_current(navigator) =
              IF navigator.items # <<>> THEN navigator.items[1] ELSE EmptyStr

\* update_items replaced a list whose cursor was on the third item by a list
\* of one item
C15_Witness ==
    /\ navCall.op = "update_items" /\ navCall.before = 2
    /\ Len(navigator.items) = 1
    /\ navigator.current_index = 0

\* C16: on an empty list next, previous, first, last, get_current and
\* set_index return the empty string and leave the index at 0
C16_EmptyListIsInert ==
    (/\ navigator.items = <<>>
     /\ navCall.op \in {"next", "previous", "first", "last", "get_current",
                        "set_index"})
    => /\ navCall.ret = EmptyStr
       /\ navigator.current_index = 0

\* last() on a list that next() had found empty
C16_Witness ==
    /\ navigator.items = <<>>
    /\ navPrev.op = "next"
    /\ navCall.op = "last" /\ navCall.ret = EmptyStr
    /\ navigator.current_index = 0

---------------------------------------------------------------------------
(* Claims about KeyboardMapper, checked under SpecMapper *)

\* the presets that a call changes: the preset of map_key and unmap_key, the
\* presets named by the document of load_config
Targets(call, km) ==
    CASE call.op \in {"map_key", "unmap_key"} ->
             {preset_or_current(km, call.preset)}
      [] call.op = "load_config" ->
             {call.doc.items[i].preset : i \in 1..Len(call.doc.items)}
      [] OTHER -> {}

\* get_mappings(p) returns a map that takes key to action
HasPair(km, p, key, action) ==
    LET got == get_mappings(km, p)
    IN  /\ ~got.raised
        /\ key \in DOMAIN got.ret
        /\ got.ret[key] = action

\* every value of the document is an object of key -> action
WellFormed(doc) ==
    /\ doc.kind = "object"
    /\ \A i \in 1..Len(doc.items) : doc.items[i].mappings.dict

\* the text does not parse, or it parses to something of another shape
Malformed(doc) ==
    \/ doc.kind \in {"unparsable", "array"}
    \/ /\ doc.kind = "object"
       /\ \E i \in 1..Len(doc.items) : ~doc.items[i].mappings.dict

\* C17: create_preset(x, base) on an existing base gives x the mappings of
\* base, and from then on a map_key, unmap_key or load_config that changes x
\* alone leaves get_mappings(base) as it was, and one that changes base alone
\* leaves get_mappings(x) as it was
C17_CopyIsIndependent ==
    [][ /\ \A pair \in copies :
              LET x == pair[1]
                  base == pair[2]
                  changed == Targets(mapCall', keyboard_mapper)
              IN  /\ changed = {x} =>
                        get_mappings(keyboard_mapper', base)
                            = get_mappings(keyboard_mapper, base)
                  /\ changed = {base} =>
                        get_mappings(keyboard_mapper', x)
                            = get_mappings(keyboard_mapper, x)
        /\ (/\ mapCall'.op = "create_preset"
            /\ mapCall'.base \in list_presets(keyboard_mapper)
            /\ ~mapCall'.raised)
           => get_mappings(keyboard_mapper', mapCall'.preset)
                  = get_mappings(keyboard_mapper, mapCall'.base)
      ]_vars

\* custom was copied from default and map_key has then changed 'r' in custom:
\* default still maps 'r' to read_current
C17_Witness ==
    /\ <<"custom", "default">> \in copies
    /\ mapCall.op = "map_key" /\ mapCall.preset = "custom"
    /\ mapCall.key = K_R /\ mapCall.action = "custom_a"
    /\ HasPair(keyboard_mapper, "custom", K_r, "custom_a")
    /\ HasPair(keyboard_mapper, "custom", K_h, "help")
    /\ HasPair(keyboard_mapper, "default", K_r, "read_current")

C19_MalformedLoadChangesNothing ==
    [][ (mapCall'.op = "load_config" /\ Malformed(mapCall'.doc)) =>
          /\ ~mapCall'.raised
          /\ list_presets(keyboard_mapper') = list_presets(keyboard_mapper)
          /\ \A p \in list_presets(keyboard_mapper) :
                get_mappings(keyboard_mapper', p)
                    = get_mappings(keyboard_mapper, p)
          /\ keyboard_mapper'.current_preset = keyboard_mapper.current_preset
      ]_vars

\* C20: set_preset(name) of an existing name returns True and makes it the
\* active preset; of an unknown name it returns False, raises nothing and
\* leaves the active preset as it was; either way no preset's mappings change
C20_SetPresetIsValidated ==
    [][ mapCall'.op = "set_preset" =>
          /\ IF mapCall'.preset \in list_presets(keyboard_mapper)
             THEN /\ mapCall'.ret
                  /\ keyboard_mapper'.current_preset = mapCall'.preset
             ELSE /\ ~mapCall'.ret
                  /\ ~mapCall'.raised
                  /\ keyboard_mapper'.current_preset
                        = keyboard_mapper.current_preset
          /\ list_presets(keyboard_mapper') = list_presets(keyboard_mapper)
          /\ \A p \in list_presets(keyboard_mapper) :
                get_mappings(keyboard_mapper', p)
                    = get_mappings(keyboard_mapper, p)
      ]_vars

\* set_preset of a name never created has returned False while custom, made
\* and activated before, stays the active preset
C20_Witness ==
    /\ mapCall.op = "set_preset" /\ mapCall.preset = "missing"
    /\ ~mapCall.ret
    /\ keyboard_mapper.current_preset = "custom"
    /\ "missing" \notin list_presets(keyboard_mapper)

\* C24: presets are never deleted: over any load_config, set_preset,
\* map_key, unmap_key and create_preset, every preset name that list_presets
\* gave before the call it gives after it.
C24_PresetsAreKept ==
    [][list_presets(keyboard_mapper) \subseteq list_presets(keyboard_mapper')]_vars

\* unmap_key has left the custom preset without a mapping, and it is listed
C24_Witness ==
    /\ mapCall.op = "unmap_key"
    /\ ~mapCall.raised
    /\ preset_or_current(keyboard_mapper, mapCall.preset) = "custom"
    /\ "custom" \in list_presets(keyboard_mapper)
    /\ ~get_mappings(keyboard_mapper, "custom").raised
    /\ get_mappings(keyboard_mapper, "custom").ret = <<>>

\* C25: unmap_key(key, p) removes the mapping of the lower-cased key from p
\* when p has one and does nothing otherwise: it returns without raising, the
\* other keys of p, every other preset and the active preset are as before,
\* and no preset is made.
C25_UnmapKeyRemovesOnlyThatKey ==
    [][ mapCall'.op = "unmap_key" =>
          LET p == preset_or_current(keyboard_mapper, mapCall'.preset)
              key == lower(mapCall'.key)
          IN  /\ ~mapCall'.raised
              /\ list_presets(keyboard_mapper') = list_presets(keyboard_mapper)
              /\ keyboard_mapper'.current_preset = keyboard_mapper.current_preset
              /\ \A q \in list_presets(keyboard_mapper) \ {p} :
                    get_mappings(keyboard_mapper', q) = get_mappings(keyboard_mapper, q)
              /\ p \in list_presets(keyboard_mapper) =>
                    get_mappings(keyboard_mapper', p).ret =
                        DelItem(get_mappings(keyboard_mapper, p).ret, key)
      ]_vars

\* C26: map_key(key, action, p) on a name p that is no preset makes p with
\* that one mapping, and map_key on any preset leaves every other preset and
\* the active preset as they were.
C26_MapKeyWritesOnePreset ==
    [][ mapCall'.op = "map_key" =>
          LET p == preset_or_current(keyboard_mapper, mapCall'.preset)
              key == lower(mapCall'.key)
          IN  /\ keyboard_mapper'.current_preset = keyboard_mapper.current_preset
              /\ list_presets(keyboard_mapper') = list_presets(keyboard_mapper) \cup {p}
              /\ \A q \in list_presets(keyboard_mapper) \ {p} :
                    get_mappings(keyboard_mapper', q) = get_mappings(keyboard_mapper, q)
              /\ p \notin list_presets(keyboard_mapper) =>
                    /\ ~mapCall'.raised
                    /\ get_mappings(keyboard_mapper', p) =
                          [ret |-> key :> mapCall'.action, alias |-> 0,
                           raised |-> FALSE]
      ]_vars

\* map_key has written the custom preset, which holds one mapping, while
\* another preset is active
C26_Witness ==
    /\ mapCall.op = "map_key"
    /\ mapCall.preset = "custom"
    /\ keyboard_mapper.current_preset = "default"
    /\ get_mappings(keyboard_mapper, "custom") =
          [ret |-> lower(mapCall.key) :> mapCall.action, alias |-> 0,
           raised |-> FALSE]

\* the tables that _init_default_mappings writes, by preset name
SeededPresets == {"default", "screen_reader", "match", "tactics", "inbox"}

Seeded(p) ==
    CASE p = "default"       -> default_mappings
      [] p = "screen_reader" -> screen_reader_mappings
      [] p = "match"         -> match_mappings
      [] p = "tactics"       -> tactics_mappings
      [] p = "inbox"         -> inbox_mappings

\* C27: right after KeyboardMapper() without a config file, list_presets is
\* default, screen_reader, match, tactics and inbox, the active preset is
\* default, and get_action gives the seeded action of every seeded (preset,
\* key) pair: space is toggle in default (the active preset) and pause_match
\* in match, f is change_formation in tactics.
C27_ConstructionSeedsDefaults ==
    mapCall.op = "__init__" =>
        /\ list_presets(keyboard_mapper) = SeededPresets
        /\ keyboard_mapper.current_preset = "default"
        /\ get_action(keyboard_mapper, K_space, NoPreset) =
              [found |-> TRUE, action |-> "toggle", raised |-> FALSE]
        /\ get_action(keyboard_mapper, K_SPACE, "default") =
              [found |-> TRUE, action |-> "toggle", raised |-> FALSE]
        /\ get_action(keyboard_mapper, K_space, "match") =
              [found |-> TRUE, action |-> "pause_match", raised |-> FALSE]
        /\ get_action(keyboard_mapper, K_f, "tactics") =
              [found |-> TRUE, action |-> "change_formation", raised |-> FALSE]
        /\ get_action(keyboard_mapper, K_f, NoPreset) = NotFound
        /\ \A p \in SeededPresets : \A k \in DOMAIN Seeded(p) :
              get_action(keyboard_mapper, k, p) =
                  [found |-> TRUE, action |-> Seeded(p)[k], raised |-> FALSE]

\* the mapper has just been constructed and space is looked up in two presets
C27_Witness ==
    /\ mapCall.op = "__init__"
    /\ get_action(keyboard_mapper, K_space, NoPreset).action = "toggle"
    /\ get_action(keyboard_mapper, K_space, "match").action = "pause_match"

---------------------------------------------------------------------------
(* Claims about KeyboardMapper, checked under SpecLookup *)

\* C21: after map_key(k, a, p), and until a map_key, unmap_key or
\* load_config on that key in p, get_action(k', p) is a for every k' that is
\* k up to letter case; and after map_key calls on spellings of one key that
\* differ in case, p holds one entry for the key, with the later action
C21_LastWriteWinsAnyCase ==
    \A w \in written :
        /\ \A k \in MapperKeys :
              lower(k) = w.key =>
                  get_action(keyboard_mapper, k, w.preset)
                      = [found |-> TRUE, action |-> w.action, raised |-> FALSE]
        /\ Cardinality(w.spelt) >= 2 =>
              /\ HasPair(keyboard_mapper, w.preset, w.key, w.action)
              /\ {k \in DOMAIN get_mappings(keyboard_mapper, w.preset).ret :
                     lower(k) = w.key} = {w.key}

\* C22: get_action(key) without a preset looks the key up in the active
\* preset; for a key without a mapping and for a preset name that does not
\* exist it returns None and raises nothing; it creates no preset and
\* changes nothing in the mapper
C22_LookupIsQuiet ==
    [][ mapCall'.op = "get_action" =>
          LET key == mapCall'.key
              p == preset_or_current(keyboard_mapper, mapCall'.preset)
              result == [found |-> mapCall'.ret, action |-> mapCall'.action,
                         raised |-> mapCall'.raised]
          IN  /\ keyboard_mapper' = keyboard_mapper
              /\ mapCall'.preset = NoPreset =>
                    result = get_action(keyboard_mapper, key,
                                        keyboard_mapper.current_preset)
              /\ (\/ p \notin list_presets(keyboard_mapper)
                  \/ get_mappings(keyboard_mapper, p).raised
                  \/ lower(key) \notin
                         DOMAIN get_mappings(keyboard_mapper, p).ret)
                 => result = NotFound
      ]_vars

----------------------------------------------------------------------------
(* Claims about KeyboardMapper, checked under SpecCopy *)

\* C23: get_mappings returns a copy: when its caller adds, changes or
\* removes an entry of the map it was given, every later get_action and
\* get_mappings of the mapper gives what it gave before the edit.
C23_ReturnedMapIsACopy ==
    [][ mapCall'.op \in {"host_setitem", "host_delitem"} =>
          \A p \in LookupPresets \cup list_presets(keyboard_mapper) :
             /\ get_mappings(keyboard_mapper', p) = get_mappings(keyboard_mapper, p)
             /\ \A k \in MapperKeys :
                   get_action(keyboard_mapper', k, p) = get_action(keyboard_mapper, k, p)
      ]_vars

\* the caller has set an entry of the map it got for the custom preset, and
\* the map now differs from the mapper's
C23_Witness ==
    /\ mapCall.op = "host_setitem"
    /\ returned.held
    /\ returned.preset = "custom"
    /\ "custom" \in list_presets(keyboard_mapper)
    /\ returned.items # get_mappings(keyboard_mapper, "custom").ret

----------------------------------------------------------------------------
(* Claims about parse_key_combo, checked under SpecParse *)

\* the values of a sequence
Range(seq) == {seq[i] : i \in 1..Len(seq)}

\* two token lists name the same combination: the same base key and the
\* same modifiers, in any order and any number of times, letter case aside
SameCombo(a, b) ==
    /\ lower(a[Len(a)]) = lower(b[Len(b)])
    /\ {lower(a[i]) : i \in 1..(Len(a) - 1)} = {lower(b[i]) : i \in 1..(Len(b) - 1)}

\* C28: parsing gives a modifier set: two combination strings with the same
\* base key and the same modifiers, in any order and any number of times,
\* parse to equal results.
C28_ModifiersAreASet ==
    [][ (/\ parseCall.op = "parse_key_combo"
         /\ parseCall'.op = "parse_key_combo"
         /\ SameCombo(parseCall.tokens, parseCall'.tokens))
        => <<parseCall'.modifiers, parseCall'.key>> =
              <<parseCall.modifiers, parseCall.key>> ]_vars

\* C29: parse_key_combo lower-cases its argument and splits it on '+': the
\* base key is the last segment, the modifiers are the segments before it, a
\* string without '+' has no modifiers, the empty string has no modifiers and
\* an empty base key, and the handler's bindings and mode are as before.
C29_ParseSplitsLowerCased ==
    [][ (parseCall'.op = "parse_key_combo" /\ parseVars' # parseVars) =>
          LET t == parseCall'.tokens
              n == Len(t)
          IN  /\ parseCall'.key_string = JoinPlus(t)
              /\ parseCall'.key = lower(t[n])
              /\ Range(parseCall'.modifiers) = {lower(t[i]) : i \in 1..(n - 1)}
              /\ n = 1 => parseCall'.modifiers = <<>>
              /\ parseCall'.key_string = EmptyStr =>
                    parseCall'.modifiers = <<>> /\ parseCall'.key = EmptyStr
              /\ hotkeys' = hotkeys
              /\ navigation_mode' = navigation_mode
      ]_vars

\* 'ctrl+Shift+S' has been parsed on a handler that has a binding
C29_Witness ==
    /\ parseCall.op = "parse_key_combo"
    /\ parseCall.tokens = <<K_ctrl, K_Shift, K_S>>
    /\ parseCall.key = K_s
    /\ K_shift \in Range(parseCall.modifiers)
    /\ DOMAIN expected # {}

----------------------------------------------------------------------------
(* Claims about InboxScreen, checked under SpecInbox *)

\* C30: open_email keeps the cursor over the rebuild of the list: after
\* open_email on the email at index i of an active inbox, the navigator's
\* index is i, that email and no other has become read, and the navigator's
\* item at i is the summary of that email as it is now, which says "read".
C30_OpenEmailKeepsCursor ==
    [][ (inboxCall'.op = "open_email" /\ inbox.active) =>
          LET i == get_current_index(inbox.navigator)
          IN  /\ get_current_index(inbox'.navigator) = i
              /\ inbox'.current_email = i
              /\ inbox'.emails =
                    [inbox.emails EXCEPT ![i + 1] = [@ EXCEPT !.read = TRUE]]
              /\ get_current(inbox'.navigator) =
                    Email_get_summary(inbox'.emails[i + 1])
              /\ get_current(inbox'.navigator)[1] = "read"
              /\ Len(inbox'.navigator.items) = Len(inbox.navigator.items)
      ]_vars

\* the third email has just been opened while the first two are unread, and
\* the cursor is on it
C30_Witness ==
    /\ inboxCall.op = "open_email"
    /\ inbox.active
    /\ inboxCall.before = 2
    /\ get_current_index(inbox.navigator) = 2
    /\ inbox.emails[3].read
    /\ ~inbox.emails[1].read
    /\ ~inbox.emails[2].read

----------------------------------------------------------------------------
(* More claims about KeyboardMapper, checked under SpecLookup and SpecMapper *)

\* C33: every pair of a preset is found by lookup: after any load_config,
\* map_key and create_preset, for every preset p and every key k of
\* get_mappings(p), get_action(k, p) returns the action k has there.
C33_StoredPairsAreFound ==
    \A p \in list_presets(keyboard_mapper) :
        LET got == get_mappings(keyboard_mapper, p)
        IN  ~got.raised =>
              \A k \in DOMAIN got.ret :
                 get_action(keyboard_mapper, k, p) =
                     [found |-> TRUE, action |-> got.ret[k], raised |-> FALSE]

\* C34: create_preset(name, ...) on a name that is a preset already keeps
\* the mappings that preset has: each of its pairs is there after the call.
C34_CreatePresetKeepsExisting ==
    [][ (mapCall'.op = "create_preset"
         /\ mapCall'.preset \in list_presets(keyboard_mapper)
         /\ ~get_mappings(keyboard_mapper, mapCall'.preset).raised) =>
          \A k \in DOMAIN get_mappings(keyboard_mapper, mapCall'.preset).ret :
             HasPair(keyboard_mapper', mapCall'.preset, k,
                     get_mappings(keyboard_mapper, mapCall'.preset).ret[k])
      ]_vars

\* C35: the active preset names a preset: in every state that load_config,
\* set_preset (also one that fails), map_key, unmap_key and create_preset
\* reach, current_preset is one of list_presets.
C35_ActivePresetExists ==
    keyboard_mapper.current_preset \in list_presets(keyboard_mapper)

\* set_preset has just refused a name that is no preset, after custom had
\* been made the active preset
C35_Witness ==
    /\ mapCall.op = "set_preset"
    /\ mapCall.preset = "missing"
    /\ ~mapCall.ret
    /\ "missing" \notin list_presets(keyboard_mapper)
    /\ keyboard_mapper.current_preset = "custom"

----------------------------------------------------------------------------
(* Claims about screens on one handler, checked under SpecScreens and      *)
(* SpecInbox                                                               *)

\* the method a screen binds to 'down'
DownMethod(owner) ==
    IF owner = "main_menu" THEN Method("main_menu", "next_item")
    ELSE Method("save_load", "next_save")

\* C31: with the screens constructed on one handler, once screen X has been
\* activated, handle_key('down') invokes X's callback for 'down' and X's
\* cursor moves to the next item.
C31_ActiveScreenGetsItsKey ==
    [][ (/\ main_menu.built
         /\ save_load.built
         /\ lastCall.op = "activate"
         /\ lastCall'.op = "handle_key"
         /\ lower(lastCall'.key) = K_down) =>
          LET X == lastCall.cb.owner
          IN  /\ lastCall'.invoked = <<DownMethod(X)>>
              /\ X = "main_menu" =>
                    main_menu'.navigator = next(main_menu.navigator).self
              /\ X = "save_load" =>
                    save_load'.navigator = next(save_load.navigator).self
      ]_vars

\* C32: when a screen's activate() returns, get_navigation_mode() is the
\* mode the screen passed to set_navigation_mode: 'inbox' for the inbox.
C32_ActivateSetsRequestedMode ==
    [][inboxCall'.op = "activate" => navigation_mode' = "inbox"]_vars

----------------------------------------------------------------------------
(* Claims about SaveLoadScreen, checked under SpecScreens *)

\* C36: after any next_save, previous_save and delete_save, the navigator's
\* items are the summaries of saved_games, one for one and in order, so the
\* navigator holds no save that was deleted, also when no save is left.
C36_NavigatorMatchesSaves ==
    save_load.built =>
        save_load.navigator.items = Summaries(save_load.saved_games)


(* Claims about NarrationEngine under threads, checked under SpecSpeech *)

\* the positions of speak between line 68's write and the write of line 71 or 74
InEngine == {"speak_69", "runAndWait", "speak_71", "speak_74"}

\* C39: NarrationEngine.speaking is true exactly while some speak call is
\* inside the engine: never false while a thread's speech is still in
\* progress, and false once all speech has finished
C39_SpeakingWhileInEngine ==
    narrator.speaking <=> (\E t \in Threads : pc[t] \in InEngine)


---------------------------------------------------------------------------
(* Callbacks that call back into the handler that is dispatching them *)

\* the key the editing callbacks are closed over
EditKey == K_r

\* the callback a rebinding callback binds in its own place
Replacement == [owner |-> "host", method |-> "returns", id |-> 1]

\* callbacks of the host that call the handler: lambda: handler.unbind('r'),
\* lambda: handler.bind('r', replacement), lambda: handler.clear_bindings()
EditingCallbacks ==
    [owner : {"host"}, method : {"unbinds", "rebinds", "clears"}, id : {1}]

\* the binding table after the body of cb has run
run_callback(hk, cb) ==
    CASE cb.method = "unbinds" -> unbind(hk, EditKey)
      [] cb.method = "rebinds" -> bind(hk, EditKey, Replacement)
      [] cb.method = "clears" -> clear_bindings(hk)
      [] OTHER -> hk

\* handle_key that answers by looking the key up again after the callback
handle_key_rechecking(hk, key) ==
    LET cbs == handle_key_dispatch(hk, key)
        after == IF cbs # <<>> THEN run_callback(hk, cbs[1]) ELSE hk
    IN  [hotkeys |-> after, invoked |-> cbs, raised |-> FALSE, escaped |-> FALSE,
         ret |-> DictHas(after, lower(key))]

\* handle_key, lines 81-89: one lookup, self.hotkeys[key], whose value is
\* then called once; what the callback does to self.hotkeys is not read again
handle_key(hk, key) ==
    LET cbs == handle_key_dispatch(hk, key)
        found == cbs # <<>>
        raised == found /\ Raises(cbs[1])
        res == handle_key_result(found, raised)
    IN  [hotkeys |-> IF found THEN run_callback(hk, cbs[1]) ELSE hk,
         invoked |-> cbs, raised |-> raised, escaped |-> res.escaped,
         ret |-> res.ret]

\* the history map after the body of cb has run
HistCallback(ex, cb) ==
    CASE cb.method = "unbinds" -> HistUnbind(ex, EditKey)
      [] cb.method = "rebinds" -> HistBind(ex, EditKey, Replacement)
      [] cb.method = "clears" -> EmptyMap
      [] OTHER -> ex

HandleKeyEditing(key) ==
    LET r == handle_key(hotkeys, key)
        cb == IF r.invoked # <<>> THEN r.invoked[1] ELSE NoCallback
    IN  /\ hotkeys' = r.hotkeys
        /\ expected' = HistCallback(expected, cb)
        /\ clearedSinceBind' = CASE cb.method = "clears" -> TRUE
                                 [] cb.method = "rebinds" -> FALSE
                                 [] OTHER -> clearedSinceBind
        /\ lastCall' = [NoCall EXCEPT !.op = "handle_key", !.key = key,
                           !.invoked = r.invoked, !.raised = r.raised,
                           !.escaped = r.escaped, !.ret = r.ret]
        /\ prevCall' = Brief(lastCall)
        /\ UNCHANGED navigation_mode

NextEditing ==
    \/ \E key \in RawKeys, cb \in EditingCallbacks \cup {Replacement} :
          Bind(key, cb) /\ UNCHANGED <<scrVars, thrVars, libVars>>
    \/ \E key \in RawKeys : Unbind(key) /\ UNCHANGED <<scrVars, thrVars, libVars>>
    \/ \E key \in RawKeys : HandleKeyEditing(key) /\ UNCHANGED <<scrVars, thrVars, libVars>>

SpecEditing == Init /\ [][NextEditing]_vars

(* Claims about callbacks that edit the table, checked under SpecEditing *)

\* C38: a callback that changes the binding table during its own dispatch
\* (unbinds its own key, rebinds it, or calls clear_bindings) does not break
\* the dispatch: that handle_key call returns True, the callback ran exactly
\* once, and the table afterwards reflects the callback's changes
C38_EditingCallbackIsDispatched ==
    [][ (lastCall'.op = "handle_key" /\ DictHas(hotkeys, lower(lastCall'.key))
         /\ DictGet(hotkeys, lower(lastCall'.key)) \in EditingCallbacks) =>
          LET cb == DictGet(hotkeys, lower(lastCall'.key))
          IN  /\ lastCall'.ret /\ ~lastCall'.escaped
              /\ lastCall'.invoked = <<cb>>
              /\ cb.method = "unbinds" =>
                    /\ ~DictHas(hotkeys', EditKey)
                    /\ \A k \in {K_up} : DictHas(hotkeys', k) = DictHas(hotkeys, k)
              /\ cb.method = "rebinds" =>
                    /\ DictHas(hotkeys', EditKey)
                    /\ DictGet(hotkeys', EditKey) = Replacement
              /\ cb.method = "clears" => hotkeys' = <<>>
              /\ \A k \in DOMAIN expected' :
                    DictHas(hotkeys', k) /\ DictGet(hotkeys', k) = expected'[k]
              /\ \A i \in 1..Len(hotkeys') : hotkeys'[i].key \in DOMAIN expected' ]_vars

\* a callback bound to 'r' has unbound 'r' and its handle_key returned True
C38_Witness ==
    /\ lastCall.op = "handle_key"
    /\ lower(lastCall.key) = EditKey
    /\ lastCall.invoked = <<[owner |-> "host", method |-> "unbinds", id |-> 1]>>
    /\ lastCall.ret
    /\ ~DictHas(hotkeys, EditKey)


---------------------------------------------------------------------------
(* MatchDayScreen *)

K_c     == <<99>>
K_p     == <<112>>
K_t     == <<116>>
K_g     == <<103>>
K_e     == <<101>>
K_left  == <<108, 101, 102, 116>>
K_right == <<114, 105, 103, 104, 116>>

\* Python's max and min of two integers
max(a, b) == IF a >= b THEN a ELSE b

min(a, b) == IF a <= b THEN a ELSE b

MatchEvent(minute, event_type, description, team) ==
    [minute |-> minute, event_type |-> event_type, description |-> description,
     team |-> team]

\* _load_sample_match: the events of the sample match
sample_events ==
    << MatchEvent(5, "chance", "Good attacking play down the right wing. Cross is cleared.", "home"),
       MatchEvent(12, "goal", "GOAL! Johnson scores for Manchester Rovers! 1-0!", "home"),
       MatchEvent(18, "yellow_card", "Yellow card for Smith - reckless challenge.", "away"),
       MatchEvent(23, "chance", "Liverpool United with a dangerous free kick. Saved by the keeper!", "away"),
       MatchEvent(35, "corner", "Corner kick for Manchester Rovers.", "home"),
       MatchEvent(45, "half_time", "Half time. Manchester Rovers 1, Liverpool United 0.", ""),
       MatchEvent(52, "substitution", "Substitution: Williams on for Johnson.", "home"),
       MatchEvent(67, "goal", "GOAL! Liverpool United equalize! 1-1!", "away"),
       MatchEvent(75, "yellow_card", "Yellow card for Davies.", "home"),
       MatchEvent(88, "goal", "GOAL! Williams with a stunning strike! Manchester Rovers 2-1!", "home"),
       MatchEvent(90, "full_time", "Full time. Manchester Rovers 2, Liverpool United 1.", "") >>

\* __init__: inactive, the sample match loaded, the cursor on the first event
MatchDayScreen ==
    [built |-> TRUE, active |-> FALSE, events |-> sample_events,
     current_event_index |-> 0]

MatchDayScreen_setup_bindings ==
    << <<K_space, Method("matchday", "toggle_pause")>>,
       <<K_c, Method("matchday", "read_commentary")>>,
       <<K_p, Method("matchday", "read_possession")>>,
       <<K_t, Method("matchday", "read_stats")>>,
       <<K_g, Method("matchday", "read_last_goal")>>,
       <<K_e, Method("matchday", "read_last_event")>>,
       <<K_f, Method("matchday", "faster_commentary")>>,
       <<K_s, Method("matchday", "slower_commentary")>>,
       <<K_left, Method("matchday", "previous_event")>>,
       <<K_right, Method("matchday", "next_event")>>,
       <<K_escape, Method("matchday", "back")>>,
       <<K_h, Method("matchday", "show_help")>> >>

MatchDayScreen_activate(s) ==
    Ret([s EXCEPT !.active = TRUE],
        << <<"Match Day. ", "Manchester Rovers", " versus ", "Liverpool United",
             ". Press space to pause or resume.">> >>)

MatchDayScreen_deactivate(s) == Ret([s EXCEPT !.active = FALSE], <<>>)

\* the text previous_event and next_event speak for the event under the cursor
event_text(s) ==
    LET event == s.events[s.current_event_index + 1]
    IN  <<"Event ", str(s.current_event_index + 1), " of ", str(Len(s.events)),
          ", Minute ", str(event.minute), ": ", event.description>>

MatchDayScreen_read_last_event(s) ==
    IF s.active /\ s.events # <<>>
    THEN LET last_event == s.events[Len(s.events)]
         IN  Ret(s, << <<"Minute ", str(last_event.minute), ": ",
                         last_event.description>> >>)
    ELSE Ret(s, <<>>)

MatchDayScreen_previous_event(s) ==
    IF s.active /\ s.events # <<>>
    THEN LET moved == [s EXCEPT !.current_event_index =
                                    max(0, s.current_event_index - 1)]
         IN  Ret(moved, <<event_text(moved)>>)
    ELSE Ret(s, <<>>)

\* next_event that goes round to the first event
MatchDayScreen_next_event_wrapping(s) ==
    IF s.active /\ s.events # <<>>
    THEN LET moved == [s EXCEPT !.current_event_index =
                                    (s.current_event_index + 1) % Len(s.events)]
         IN  Ret(moved, <<event_text(moved)>>)
    ELSE Ret(s, <<>>)

MatchDayScreen_next_event(s) ==
    IF s.active /\ s.events # <<>>
    THEN LET moved == [s EXCEPT !.current_event_index =
                                    min(Len(s.events) - 1, s.current_event_index + 1)]
         IN  Ret(moved, <<event_text(moved)>>)
    ELSE Ret(s, <<>>)

\* back: speak, then deactivate
MatchDayScreen_back(s) ==
    Ret(MatchDayScreen_deactivate(s).self, << <<"Returning to main menu">> >>)

---------------------------------------------------------------------------
(* The MatchDayScreen driven by a host *)

\* a handler, a narrator with an engine, and MatchDayScreen(narrator, handler)
InitMatch ==
    /\ hotkeys = bind_all(<<>>, MatchDayScreen_setup_bindings)
    /\ navigation_mode = "menu"
    /\ lastCall = NoCall
    /\ prevCall = Brief(NoCall)
    /\ expected = HistBindAll(EmptyMap, MatchDayScreen_setup_bindings)
    /\ clearedSinceBind = FALSE
    /\ main_menu = NoMainMenu
    /\ save_load = NoSaveLoad
    /\ \E enabled \in BOOLEAN : narrator = NarrationEngine(enabled, TRUE)
    /\ deactivated = {}
    /\ pc = [t \in Threads |-> IF t = DispatchThread THEN "idle" ELSE "off"]
    /\ job = [t \in Threads |-> NoJob]
    /\ inflight = NoFlight
    /\ NavIdle
    /\ MapperIdle
    /\ ParseIdle
    /\ InboxIdle
    /\ ClubsIdle
    /\ matchday = MatchDayScreen
    /\ matchCall = [NoMatchCall EXCEPT !.op = "__init__"]

MatchCalled(op, r) ==
    /\ matchday' = r.self
    /\ matchCall' = [op |-> op, before |-> matchday.current_event_index,
                     said |-> speak_all(narrator, r.said)]

ActivateMatch ==
    /\ MatchCalled("activate", MatchDayScreen_activate(matchday))
    /\ navigation_mode' = set_navigation_mode(navigation_mode, "match")
    /\ UNCHANGED <<hotkeys, lastCall, prevCall, expected, clearedSinceBind>>

DeactivateMatch ==
    MatchCalled("deactivate", MatchDayScreen_deactivate(matchday))
    /\ UNCHANGED hdlVars

PreviousEvent ==
    MatchCalled("previous_event", MatchDayScreen_previous_event(matchday))
    /\ UNCHANGED hdlVars

NextEvent ==
    MatchCalled("next_event", MatchDayScreen_next_event(matchday))
    /\ UNCHANGED hdlVars

ReadLastEvent ==
    MatchCalled("read_last_event", MatchDayScreen_read_last_event(matchday))
    /\ UNCHANGED hdlVars

BackMatch ==
    MatchCalled("back", MatchDayScreen_back(matchday)) /\ UNCHANGED hdlVars

\* all but the MatchDayScreen and the handler
nonMatchVars == <<scrVars, thrVars, navVars, mapVars, parseVars, inboxVars,
                  clubVars>>

NextMatch ==
    \/ ActivateMatch /\ UNCHANGED nonMatchVars
    \/ DeactivateMatch /\ UNCHANGED nonMatchVars
    \/ PreviousEvent /\ UNCHANGED nonMatchVars
    \/ NextEvent /\ UNCHANGED nonMatchVars
    \/ ReadLastEvent /\ UNCHANGED nonMatchVars
    \/ BackMatch /\ UNCHANGED nonMatchVars

SpecMatch == InitMatch /\ [][NextMatch]_vars

(* Claims about MatchDayScreen, checked under SpecMatch *)

\* C40: the event cursor is clamped, not wrapped: after any sequence of
\* next_event and previous_event it lies in 0 .. len(events)-1, next_event at
\* the last event and previous_event at the first event leave it unchanged,
\* and neither moves it while the screen is inactive
C40_EventCursorIsClamped ==
    [][ LET n == Len(matchday.events)
            i == matchday.current_event_index
            j == matchday'.current_event_index
        IN  /\ j >= 0 /\ j <= Len(matchday'.events) - 1
            /\ (matchCall'.op = "next_event" /\ i = n - 1) => j = i
            /\ (matchCall'.op = "previous_event" /\ i = 0) => j = i
            /\ (matchCall'.op \in {"next_event", "previous_event"}
                /\ ~matchday.active) => j = i
            /\ (matchCall'.op = "next_event" /\ matchday.active /\ i < n - 1) =>
                  j = i + 1
            /\ (matchCall'.op = "previous_event" /\ matchday.active /\ i > 0) =>
                  j = i - 1 ]_vars

\* next_event was called on the active screen with the cursor on the last
\* event
C40_Witness ==
    /\ matchCall.op = "next_event"
    /\ matchday.active
    /\ matchCall.before = Len(matchday.events) - 1
    /\ matchday.current_event_index = Len(matchday.events) - 1


---------------------------------------------------------------------------
(* ClubSelectionScreen *)

K_d == <<100>>
K_x == <<120>>

Club(name, league, country, reputation, budget, division) ==
    [name |-> name, league |-> league, country |-> country,
     reputation |-> reputation, budget |-> budget, division |-> division]

\* the characters outside ASCII, by their code points
BlackStar == "U+2605"

WhiteStar == "U+2606"

Pound == "U+00A3"

\* a string repeated n times, as the parts of a text
RECURSIVE Times(_, _)
Times(part, n) == IF n <= 0 THEN <<>> ELSE <<part>> \o Times(part, n - 1)

Club_get_summary(club) ==
    <<club.name, ", ", club.league, ", ", club.country, ", Reputation: ">>
    \o Times(BlackStar, club.reputation)
    \o Times(WhiteStar, 5 - club.reputation)
    \o <<" ", str(club.reputation), " stars, Budget: ">> \o club.budget
    \o <<", Division ", str(club.division)>>

create_sample_clubs ==
    << Club("Manchester Rovers", "Premier League", "England", 5, <<Pound, "150M">>, 1),
       Club("Liverpool United", "Premier League", "England", 5, <<Pound, "140M">>, 1),
       Club("Barcelona FC", "La Liga", "Spain", 5, <<Pound, "120M">>, 1),
       Club("Real Madrid", "La Liga", "Spain", 5, <<Pound, "130M">>, 1),
       Club("Bayern Munich", "Bundesliga", "Germany", 5, <<Pound, "110M">>, 1),
       Club("Paris SG", "Ligue 1", "France", 4, <<Pound, "100M">>, 1),
       Club("AC Milan", "Serie A", "Italy", 4, <<Pound, "80M">>, 1),
       Club("Inter Milan", "Serie A", "Italy", 4, <<Pound, "85M">>, 1),
       Club("Newcastle City", "Championship", "England", 3, <<Pound, "20M">>, 2),
       Club("Leeds Town", "Championship", "England", 3, <<Pound, "18M">>, 2),
       Club("Valencia CF", "La Liga", "Spain", 3, <<Pound, "25M">>, 1),
       Club("Sevilla FC", "La Liga", "Spain", 3, <<Pound, "22M">>, 1) >>

ClubSummaries(clubs) == [i \in 1..Len(clubs) |-> Club_get_summary(clubs[i])]

\* __init__: inactive, every club listed, no filter
ClubSelectionScreen ==
    [built |-> TRUE, active |-> FALSE, all_clubs |-> create_sample_clubs,
     filtered_clubs |-> create_sample_clubs,
     navigator |-> NavigationHelper(ClubSummaries(create_sample_clubs)),
     country_filter |-> NoCountry, division_filter |-> NoDivision]

ClubSelectionScreen_setup_bindings ==
    << <<K_up, Method("club_selection", "previous_club")>>,
       <<K_down, Method("club_selection", "next_club")>>,
       <<K_enter, Method("club_selection", "select_club")>>,
       <<K_r, Method("club_selection", "read_current")>>,
       <<K_c, Method("club_selection", "filter_by_country")>>,
       <<K_d, Method("club_selection", "filter_by_division")>>,
       <<K_x, Method("club_selection", "clear_filters")>>,
       <<K_escape, Method("club_selection", "back")>>,
       <<K_h, Method("club_selection", "show_help")>> >>

ClubSelectionScreen_read_current(s) ==
    IF s.active
    THEN Ret(s, << <<"Club ", str(get_current_index(s.navigator) + 1), " of ",
                     str(Len(s.filtered_clubs)), ": ">>
                   \o get_current(s.navigator) >>)
    ELSE Ret(s, <<>>)

ClubSelectionScreen_activate(s) ==
    LET on == [s EXCEPT !.active = TRUE]
    IN  Ret(on, << <<"Club Selection. ", str(Len(on.filtered_clubs)),
                     " clubs available.">> >>
                \o ClubSelectionScreen_read_current(on).said)

ClubSelectionScreen_deactivate(s) == Ret([s EXCEPT !.active = FALSE], <<>>)

ClubSelectionScreen_next_club(s) ==
    IF s.active
    THEN LET r == next(s.navigator)
         IN  Ret([s EXCEPT !.navigator = r.self], <<r.ret>>)
    ELSE Ret(s, <<>>)

ClubSelectionScreen_previous_club(s) ==
    IF s.active
    THEN LET r == previous(s.navigator)
         IN  Ret([s EXCEPT !.navigator = r.self], <<r.ret>>)
    ELSE Ret(s, <<>>)

\* select_club: self.filtered_clubs[index] raises IndexError when index is
\* not below len(self.filtered_clubs)
ClubSelectionScreen_select_club(s) ==
    IF s.active
    THEN LET index == get_current_index(s.navigator)
         IN  IF index < Len(s.filtered_clubs)
             THEN LET club == s.filtered_clubs[index + 1]
                  IN  Ret(s, << <<"Selected ", club.name,
                                  ". Starting new career.">> >>)
             ELSE [self |-> s, said |-> <<>>, raised |-> TRUE]
    ELSE Ret(s, <<>>)

\* list(set(c.country for c in self.all_clubs)) after sort()
countries == <<"England", "France", "Germany", "Italy", "Spain">>

divisions == <<1, 2, 3>>

\* list.index(value), counted from 0
index_of(list, value) == (CHOOSE i \in 1..Len(list) : list[i] = value) - 1

\* _apply_filters: filter, build a new navigator, read the current club if
\* there is one
ClubSelectionScreen_apply_filters(s) ==
    LET by_country == IF s.country_filter # NoCountry
                      THEN SelectSeq(s.all_clubs,
                                     LAMBDA c : c.country = s.country_filter)
                      ELSE s.all_clubs
        by_division == IF s.division_filter # NoDivision
                       THEN SelectSeq(by_country,
                                      LAMBDA c : c.division = s.division_filter)
                       ELSE by_country
        done == [s EXCEPT !.filtered_clubs = by_division,
                          !.navigator = NavigationHelper(ClubSummaries(by_division))]
    IN  Ret(done, IF by_division # <<>>
                  THEN ClubSelectionScreen_read_current(done).said ELSE <<>>)

ClubSelectionScreen_filter_by_country(s) ==
    IF s.active
    THEN LET chosen == IF s.country_filter = NoCountry
                       THEN countries[1]
                       ELSE countries[((index_of(countries, s.country_filter) + 1)
                                          % Len(countries)) + 1]
             r == ClubSelectionScreen_apply_filters(
                      [s EXCEPT !.country_filter = chosen])
         IN  Ret(r.self, r.said \o << <<"Filtering by country: ", chosen, ". ",
                                        str(Len(r.self.filtered_clubs)),
                                        " clubs found.">> >>)
    ELSE Ret(s, <<>>)

ClubSelectionScreen_filter_by_division(s) ==
    IF s.active
    THEN LET chosen == IF s.division_filter = NoDivision
                       THEN 1
                       ELSE divisions[((index_of(divisions, s.division_filter) + 1)
                                          % Len(divisions)) + 1]
             r == ClubSelectionScreen_apply_filters(
                      [s EXCEPT !.division_filter = chosen])
         IN  Ret(r.self, r.said \o << <<"Filtering by division: ", str(chosen),
                                        ". ", str(Len(r.self.filtered_clubs)),
                                        " clubs found.">> >>)
    ELSE Ret(s, <<>>)

ClubSelectionScreen_clear_filters(s) ==
    IF s.active
    THEN LET r == ClubSelectionScreen_apply_filters(
                      [s EXCEPT !.country_filter = NoCountry,
                                !.division_filter = NoDivision])
         IN  Ret(r.self, r.said \o << <<"Filters cleared. ",
                                        str(Len(r.self.filtered_clubs)),
                                        " clubs available.">> >>)
    ELSE Ret(s, <<>>)

\* back: speak, then deactivate
ClubSelectionScreen_back(s) ==
    Ret(ClubSelectionScreen_deactivate(s).self, << <<"Returning to main menu">> >>)

---------------------------------------------------------------------------
(* The ClubSelectionScreen driven by a host *)

\* a handler, a narrator with an engine, and ClubSelectionScreen(narrator,
\* handler)
InitClubs ==
    /\ hotkeys = bind_all(<<>>, ClubSelectionScreen_setup_bindings)
    /\ navigation_mode = "menu"
    /\ lastCall = NoCall
    /\ prevCall = Brief(NoCall)
    /\ expected = HistBindAll(EmptyMap, ClubSelectionScreen_setup_bindings)
    /\ clearedSinceBind = FALSE
    /\ main_menu = NoMainMenu
    /\ save_load = NoSaveLoad
    /\ \E enabled \in BOOLEAN : narrator = NarrationEngine(enabled, TRUE)
    /\ deactivated = {}
    /\ pc = [t \in Threads |-> IF t = DispatchThread THEN "idle" ELSE "off"]
    /\ job = [t \in Threads |-> NoJob]
    /\ inflight = NoFlight
    /\ NavIdle
    /\ MapperIdle
    /\ ParseIdle
    /\ InboxIdle
    /\ MatchIdle
    /\ club_selection = ClubSelectionScreen
    /\ clubCall = [NoClubCall EXCEPT !.op = "__init__"]

ClubCalled(op, r) ==
    /\ club_selection' = r.self
    /\ clubCall' = [op |-> op, raised |-> r.raised,
                    said |-> speak_all(narrator, r.said)]

ActivateClubs ==
    /\ ClubCalled("activate", ClubSelectionScreen_activate(club_selection))
    /\ navigation_mode' = set_navigation_mode(navigation_mode, "list")
    /\ UNCHANGED <<hotkeys, lastCall, prevCall, expected, clearedSinceBind>>

DeactivateClubs ==
    ClubCalled("deactivate", ClubSelectionScreen_deactivate(club_selection))
    /\ UNCHANGED hdlVars

NextClub ==
    ClubCalled("next_club", ClubSelectionScreen_next_club(club_selection))
    /\ UNCHANGED hdlVars

PreviousClub ==
    ClubCalled("previous_club", ClubSelectionScreen_previous_club(club_selection))
    /\ UNCHANGED hdlVars

SelectClub ==
    ClubCalled("select_club", ClubSelectionScreen_select_club(club_selection))
    /\ UNCHANGED hdlVars

FilterByCountry ==
    ClubCalled("filter_by_country",
               ClubSelectionScreen_filter_by_country(club_selection))
    /\ UNCHANGED hdlVars

FilterByDivision ==
    ClubCalled("filter_by_division",
               ClubSelectionScreen_filter_by_division(club_selection))
    /\ UNCHANGED hdlVars

ClearFilters ==
    ClubCalled("clear_filters", ClubSelectionScreen_clear_filters(club_selection))
    /\ UNCHANGED hdlVars

BackClubs ==
    ClubCalled("back", ClubSelectionScreen_back(club_selection))
    /\ UNCHANGED hdlVars

\* all but the ClubSelectionScreen and the handler
nonClubVars == <<scrVars, thrVars, navVars, mapVars, parseVars, inboxVars,
                 matchVars>>

NextClubs ==
    \/ ActivateClubs /\ UNCHANGED nonClubVars
    \/ DeactivateClubs /\ UNCHANGED nonClubVars
    \/ NextClub /\ UNCHANGED nonClubVars
    \/ PreviousClub /\ UNCHANGED nonClubVars
    \/ SelectClub /\ UNCHANGED nonClubVars
    \/ FilterByCountry /\ UNCHANGED nonClubVars
    \/ FilterByDivision /\ UNCHANGED nonClubVars
    \/ ClearFilters /\ UNCHANGED nonClubVars
    \/ BackClubs /\ UNCHANGED nonClubVars

SpecClubs == InitClubs /\ [][NextClubs]_vars

(* Claims about ClubSelectionScreen, checked under SpecClubs *)

\* C37: after any sequence of filter_by_country, filter_by_division,
\* clear_filters and cursor moves, the navigator's index is a valid index
\* into filtered_clubs whenever select_club runs, so select_club never fails
\* with an out-of-range access, also when the filters match no club
C37_SelectClubStaysInRange ==
    [][ (clubCall'.op = "select_club" /\ club_selection.active) =>
          /\ get_current_index(club_selection.navigator)
                < Len(club_selection.filtered_clubs)
          /\ ~clubCall'.raised ]_vars

====
